---- MODULE Spec2Model ----
(***************************************************************************)
(* A model of the streaming FLAC decoder of esp-audio-libs                 *)
(* (src/decode/flac/flac_decoder.cpp, include/flac_decoder.h).             *)
(*                                                                         *)
(* The decoder object is the record `dec`; its fields carry the names of   *)
(* the C++ members.  Every public call (read_header, decode_frame,         *)
(* set_max_metadata_size, set_crc_check_enabled) is one action that runs   *)
(* the whole method.  Of the 32-bit register bit_buffer_ the model keeps    *)
(* the valid bits (the low bit_buffer_length_ bits): no read of the code    *)
(* depends on the other bits of the register.                               *)
(***************************************************************************)
EXTENDS Integers, Sequences, FiniteSets, TLC

VARIABLES
  dec,        \* the FLACDecoder object
  stream,     \* the caller's byte stream (header, then frames)
  pos,        \* offset in stream of the caller's input window
  op,         \* the public method that returned last
  ret,        \* its result code
  arg,        \* its buffer: [from |-> offset in stream, len |-> buffer_length]
  out,        \* the caller's output buffer after the last decode_frame
  num_samples,\* *num_samples after the last decode_frame
  hist,       \* results of the calls so far of the method in op, oldest first
  build,      \* "any" until an assert fails; then "debug" (aborted) or "ndebug"
  limits_changed, \* set_max_metadata_size was called after the first read_header
  delivered   \* the number of decode_frame calls that returned SUCCESS

vars ==
  <<dec, stream, pos, op, ret, arg, out, num_samples, hist, build, limits_changed, delivered>>

----------------------------------------------------------------------------
(* Result codes: include/flac_decoder.h, enum FLACDecoderResult.           *)

FLAC_DECODER_SUCCESS == "SUCCESS"
FLAC_DECODER_NO_MORE_FRAMES == "NO_MORE_FRAMES"
FLAC_DECODER_HEADER_OUT_OF_DATA == "HEADER_OUT_OF_DATA"
FLAC_DECODER_ERROR_OUT_OF_DATA == "ERROR_OUT_OF_DATA"
FLAC_DECODER_ERROR_BAD_MAGIC_NUMBER == "ERROR_BAD_MAGIC_NUMBER"
FLAC_DECODER_ERROR_SYNC_NOT_FOUND == "ERROR_SYNC_NOT_FOUND"
FLAC_DECODER_ERROR_BAD_BLOCK_SIZE_CODE == "ERROR_BAD_BLOCK_SIZE_CODE"
FLAC_DECODER_ERROR_BAD_HEADER == "ERROR_BAD_HEADER"
FLAC_DECODER_ERROR_RESERVED_CHANNEL_ASSIGNMENT == "ERROR_RESERVED_CHANNEL_ASSIGNMENT"
FLAC_DECODER_ERROR_BAD_SAMPLE_DEPTH == "ERROR_BAD_SAMPLE_DEPTH"
FLAC_DECODER_ERROR_RESERVED_SUBFRAME_TYPE == "ERROR_RESERVED_SUBFRAME_TYPE"
FLAC_DECODER_ERROR_BAD_FIXED_PREDICTION_ORDER == "ERROR_BAD_FIXED_PREDICTION_ORDER"
FLAC_DECODER_ERROR_RESERVED_RESIDUAL_CODING_METHOD == "ERROR_RESERVED_RESIDUAL_CODING_METHOD"
FLAC_DECODER_ERROR_BLOCK_SIZE_NOT_DIVISIBLE_RICE == "ERROR_BLOCK_SIZE_NOT_DIVISIBLE_RICE"
FLAC_DECODER_ERROR_MEMORY_ALLOCATION_ERROR == "ERROR_MEMORY_ALLOCATION_ERROR"
FLAC_DECODER_ERROR_BLOCK_SIZE_OUT_OF_RANGE == "ERROR_BLOCK_SIZE_OUT_OF_RANGE"
FLAC_DECODER_ERROR_CRC_MISMATCH == "ERROR_CRC_MISMATCH"

(* The process ended in a failed assert(): no code of the enum.            *)
ABORTED == "ABORTED"
UNDEFINED == "UNDEFINED"

(* Metadata block types: include/flac_decoder.h, enum FLACMetadataType.    *)
FLAC_METADATA_TYPE_STREAMINFO == 0
FLAC_METADATA_TYPE_PADDING == 1
FLAC_METADATA_TYPE_APPLICATION == 2
FLAC_METADATA_TYPE_SEEKTABLE == 3
FLAC_METADATA_TYPE_VORBIS_COMMENT == 4
FLAC_METADATA_TYPE_CUESHEET == 5
FLAC_METADATA_TYPE_PICTURE == 6

DEFAULT_MAX_ALBUM_ART_SIZE == 0
DEFAULT_MAX_PADDING_SIZE == 0
DEFAULT_MAX_APPLICATION_SIZE == 0
DEFAULT_MAX_SEEKTABLE_SIZE == 0
DEFAULT_MAX_VORBIS_COMMENT_SIZE == 2048
DEFAULT_MAX_CUESHEET_SIZE == 0
DEFAULT_MAX_UNKNOWN_SIZE == 0

(* 'fLaC', 0x664C6143.                                                     *)
MAGIC_NUMBER == 1716281667

----------------------------------------------------------------------------
(* Arithmetic helpers for the fixed-width C++ integers.                    *)

Pow2(n) == 2 ^ n

Min(a, b) == IF a < b THEN a ELSE b

(* Evaluation order: TLC evaluates a LET definition when it is first used. *)
(* After(x, e) is e, with x evaluated first, as the statement computing x  *)
(* precedes the statements of e in the code.                               *)
After(x, e) == IF x = x THEN e ELSE e

(* The big-endian value of the n <= 3 bytes of buf that follow offset at.   *)
BytesValue(buf, at, n) ==
  CASE n = 0 -> 0
    [] n = 1 -> buf[at + 1]
    [] n = 2 -> buf[at + 1] * 256 + buf[at + 2]
    [] n = 3 -> buf[at + 1] * 65536 + buf[at + 2] * 256 + buf[at + 3]

(* The value of the n <= 16 bits that start `from` bits after offset at.    *)
Slice16(buf, at, from, n) ==
  IF n = 0 THEN 0
  ELSE LET first == at + (from \div 8)
           off == from % 8
           nb == (off + n + 7) \div 8
       IN ((buf[first + 1] % Pow2(8 - off)) * Pow2(8 * (nb - 1))
             + BytesValue(buf, first + 1, nb - 1)) \div Pow2(8 * nb - off - n)

(* The same for n <= 31 bits.                                               *)
Slice(buf, at, from, n) ==
  IF n <= 16 THEN Slice16(buf, at, from, n)
  ELSE Slice16(buf, at, from, n - 16) * 65536 + Slice16(buf, at, from + n - 16, 16)

(* n <= 32 bits of v, most significant first (2^31 is beyond TLC's integers). *)
NatToBits(v, n) ==
  [i \in 1..n |-> IF n - i >= 31 THEN 0 ELSE (v \div Pow2(n - i)) % 2]

(* The unsigned value of a bit string, most significant bit first.         *)
RECURSIVE BitsToNat(_)
BitsToNat(bits) ==
  IF Len(bits) = 0 THEN 0
  ELSE IF Len(bits) = 1 THEN bits[1]
  ELSE LET h == Len(bits) \div 2 IN
       BitsToNat(SubSeq(bits, 1, h)) * Pow2(Len(bits) - h)
         + BitsToNat(SubSeq(bits, h + 1, Len(bits)))

----------------------------------------------------------------------------
RECURSIVE Call(_, _)

(* Bit stream reading (flac_decoder.cpp, "Bit Stream Reading").            *)
(* Operators that read return [s |-> decoder after the read, v |-> value]. *)
(* bit_buffer_ holds the value of the valid bits of the register, its low  *)
(* bit_buffer_length_ bits: every read of the code masks the others away.  *)

(* reset_bit_buffer: push the whole bytes still held in the register back  *)
(* onto the input.  The assert is recorded in assert_failed_; the          *)
(* arithmetic is the one a build without asserts performs.  buffer_index_  *)
(* is a size_t: a negative value here stands for the wrapped one.          *)
reset_bit_buffer_no_rewind(s) ==
  [s EXCEPT !.assert_failed_ = @ \/ (s.bit_buffer_length_ % 8 # 0),
            !.bit_buffer_length_ = 0, !.bit_buffer_ = 0]

reset_bit_buffer(s) ==
  [s EXCEPT !.assert_failed_ = @ \/ (s.bit_buffer_length_ % 8 # 0),
            !.buffer_index_ = @ - (s.bit_buffer_length_ \div 8),
            !.bytes_left_ = @ + (s.bit_buffer_length_ \div 8),
            !.bit_buffer_length_ = 0,
            !.bit_buffer_ = 0]

(* One bit dropped from a register that is off a byte boundary.             *)
align_one_bit(s) ==
  IF s.bit_buffer_length_ % 8 = 0 THEN s
  ELSE [s EXCEPT !.bit_buffer_length_ = @ - 1,
                 !.bit_buffer_ = @ % Pow2(s.bit_buffer_length_ - 1)]

(* align_to_byte: drop the bits up to the next byte boundary.              *)
align_to_byte(s) ==
  IF s.bit_buffer_length_ >= 8
    THEN [s EXCEPT !.bit_buffer_length_ = @ - (@ % 8),
                   !.bit_buffer_ = @ % Pow2(s.bit_buffer_length_
                                            - (s.bit_buffer_length_ % 8))]
    ELSE [s EXCEPT !.bit_buffer_length_ = 0, !.bit_buffer_ = 0]

(* refill_bit_buffer loads four bytes, or all that are left when fewer:    *)
(* the number of bytes it loads.  Its callers take at least one bit of the *)
(* loaded word at once, so the register they leave holds 31 bits at most.  *)
refill_count(s) == Min(4, s.bytes_left_)

(* read_uint for num_bits <= 31: the next num_bits bits as a number; 0 and *)
(* out_of_data_ when the register and the input together hold too few.     *)
read_uint(s, num_bits) ==
  LET new_bits_needed == num_bits - s.bit_buffer_length_ IN
  IF num_bits = 0 THEN [s |-> s, v |-> 0]
  ELSE IF new_bits_needed > 0 THEN
    LET bytes_needed == (new_bits_needed + 7) \div 8 IN
    IF s.bytes_left_ < bytes_needed
      THEN [s |-> [s EXCEPT !.out_of_data_ = TRUE], v |-> 0]
      ELSE
        LET k == refill_count(s)
            left == 8 * k - new_bits_needed
        IN [s |-> [s EXCEPT !.bit_buffer_ = Slice(s.buffer_, s.buffer_index_, new_bits_needed, left),
                            !.bit_buffer_length_ = left,
                            !.buffer_index_ = @ + k,
                            !.bytes_left_ = @ - k],
            v |-> (IF s.bit_buffer_length_ = 0 THEN 0
                   ELSE s.bit_buffer_ * Pow2(new_bits_needed))
                    + Slice(s.buffer_, s.buffer_index_, 0, new_bits_needed)]
  ELSE
    LET left == s.bit_buffer_length_ - num_bits IN
    [s |-> [s EXCEPT !.bit_buffer_ = @ % Pow2(left), !.bit_buffer_length_ = left],
     v |-> s.bit_buffer_ \div Pow2(left)]

(* read_uint(32): the register holds 31 bits at most, so new bits are      *)
(* always needed.  v is <<high 16 bits, low 16 bits>> of the result.       *)
read_uint_32(s) ==
  LET new_bits_needed == 32 - s.bit_buffer_length_
      bytes_needed == (new_bits_needed + 7) \div 8
  IN
  IF s.bytes_left_ < bytes_needed
    THEN [s |-> [s EXCEPT !.out_of_data_ = TRUE], v |-> <<0, 0>>]
    ELSE
      LET k == refill_count(s)
          left == 8 * k - new_bits_needed
          t == [s EXCEPT !.bit_buffer_ = Slice(s.buffer_, s.buffer_index_, new_bits_needed, left),
                         !.bit_buffer_length_ = left,
                         !.buffer_index_ = @ + k,
                         !.bytes_left_ = @ - k]
      IN IF new_bits_needed >= 16
           THEN LET top == Slice16(s.buffer_, s.buffer_index_, 0, new_bits_needed - 16)
                    low == Slice16(s.buffer_, s.buffer_index_, new_bits_needed - 16, 16)
                IN [s |-> t, v |-> <<s.bit_buffer_ * Pow2(new_bits_needed - 16) + top, low>>]
           ELSE LET top == Slice(s.buffer_, s.buffer_index_, 0, new_bits_needed) IN
                [s |-> t,
                 v |-> <<s.bit_buffer_ \div Pow2(16 - new_bits_needed),
                         (s.bit_buffer_ % Pow2(16 - new_bits_needed)) * Pow2(new_bits_needed)
                           + top>>]

(* read_aligned_byte: read_uint(8) behind an assert of byte alignment.     *)
read_aligned_byte(s) ==
  Call("read_uint", <<[s EXCEPT !.assert_failed_ = @ \/ (s.bit_buffer_length_ % 8 # 0)], 8>>)

(* int32_t arithmetic.  x mod 2^k for k <= 31, of an int32_t x.             *)
Mod2(x, k) ==
  IF k >= 31 THEN (IF x >= 0 THEN x ELSE (x + Pow2(30)) + Pow2(30)) ELSE x % Pow2(k)

(* (int32_t) x << n with the wrap-around of the target, 0 <= n <= 31.       *)
Shl32(x, n) ==
  IF n = 0 THEN x
  ELSE IF n = 31 THEN (IF x % 2 = 1 THEN (0 - Pow2(30)) - Pow2(30) ELSE 0)
  ELSE LET u == Mod2(x, 32 - n) IN
       IF u >= Pow2(31 - n)
         THEN ((u - Pow2(31 - n)) * Pow2(n) - Pow2(30)) - Pow2(30)
         ELSE u * Pow2(n)

(* The int32_t whose low n bits (1 <= n <= 31) are v, sign-extended.        *)
SignExtend(v, n) ==
  IF v >= Pow2(n - 1) THEN (v - Pow2(n - 1)) - Pow2(n - 1) ELSE v

(* static_cast<int32_t> of the 32-bit word <<high 16 bits, low 16 bits>>.   *)
Int32OfHalves(w) ==
  IF w[1] >= 32768 THEN (w[1] - 65536) * 65536 + w[2] ELSE w[1] * 65536 + w[2]

(* read_sint(num_bits).  A width of 0 shifts by num_bits - 1, and a width   *)
(* beyond 63 shifts by 64 or more; a negative width here stands for the     *)
(* unsigned depth that wrapped below zero.  These are undefined, recorded   *)
(* in ub_.                                                                  *)
read_sint(s, num_bits) ==
  IF num_bits > 63 \/ num_bits <= 0 THEN [s |-> [s EXCEPT !.ub_ = TRUE], v |-> 0]
  ELSE IF num_bits > 32 THEN
    LET upper == Call("read_uint", <<s, num_bits - 32>>)
        lower == read_uint_32(upper.s)
    IN [s |-> lower.s, v |-> Int32OfHalves(lower.v)]
  ELSE IF num_bits = 32 THEN
    LET next_int == read_uint_32(s) IN [s |-> next_int.s, v |-> Int32OfHalves(next_int.v)]
  ELSE
    LET next_int == Call("read_uint", <<s, num_bits>>) IN
    [s |-> next_int.s, v |-> SignExtend(next_int.v, num_bits)]

(* The number of bits of v > 0 up to its highest set bit; 0 for 0.          *)
RECURSIVE BitLen(_)
BitLen(v) == IF v = 0 THEN 0 ELSE 1 + BitLen(v \div 2)

(* The index (1..k) of the first non-zero byte among the k bytes of buf     *)
(* after offset at; 0 when all are zero.                                    *)
FirstNonZero(buf, at, k) ==
  IF \A j \in 1..k : buf[at + j] = 0 THEN 0
  ELSE CHOOSE j \in 1..k : buf[at + j] # 0 /\ \A i \in 1..(j - 1) : buf[at + i] = 0

(* The unary part of read_rice_sint: zero bits are counted up to the first  *)
(* one bit, refilling the register when it runs empty.  ok is false when    *)
(* the input ran out first.                                                 *)
RECURSIVE read_unary(_, _)
read_unary(s, unary_count) ==
  IF s.bit_buffer_length_ = 0 THEN
    IF s.bytes_left_ = 0
      THEN [s |-> [s EXCEPT !.out_of_data_ = TRUE], v |-> unary_count, ok |-> FALSE]
      ELSE
        LET k == refill_count(s)
            nz == FirstNonZero(s.buffer_, s.buffer_index_, k)
            t == [s EXCEPT !.buffer_index_ = @ + k, !.bytes_left_ = @ - k]
        IN IF nz = 0
             THEN read_unary([t EXCEPT !.bit_buffer_ = 0, !.bit_buffer_length_ = 0],
                             unary_count + 8 * k)
             ELSE
               LET leading_zeros ==
                     8 * (nz - 1) + (8 - BitLen(s.buffer_[s.buffer_index_ + nz]))
                   left == 8 * k - leading_zeros - 1
               IN [s |-> [t EXCEPT !.bit_buffer_ =
                                      Slice(s.buffer_, s.buffer_index_,
                                            leading_zeros + 1, left),
                                   !.bit_buffer_length_ = left],
                   v |-> unary_count + leading_zeros, ok |-> TRUE]
  ELSE IF s.bit_buffer_ = 0 THEN
    read_unary([s EXCEPT !.bit_buffer_length_ = 0], unary_count + s.bit_buffer_length_)
  ELSE
    LET bl == BitLen(s.bit_buffer_) IN
    [s |-> [s EXCEPT !.bit_buffer_ = @ - Pow2(bl - 1), !.bit_buffer_length_ = bl - 1],
     v |-> unary_count + (s.bit_buffer_length_ - bl), ok |-> TRUE]

(* read_rice_sint(param): unary quotient, param binary bits, zigzag sign.   *)
(* value is (unary_count << param) | binary in 32 bits; the result is       *)
(* (value >> 1) ^ -(value & 1).                                             *)
read_rice_sint(s, param) ==
  LET u == Call("read_unary", <<s, 0>>) IN
  IF ~u.ok THEN [s |-> u.s, v |-> 0]
  ELSE
    LET binary == Call("read_uint", <<u.s, param>>)
        kept == IF param <= 1 THEN u.v ELSE u.v % Pow2(32 - param)
        half == IF param = 0 THEN kept \div 2
                ELSE kept * Pow2(param - 1) + (binary.v \div 2)
        odd == IF param = 0 THEN kept % 2 = 1 ELSE binary.v % 2 = 1
    IN [s |-> binary.s, v |-> IF odd THEN (0 - half) - 1 ELSE half]

(* x with bit k flipped.                                                    *)
FlipBit(x, k) == IF (x \div Pow2(k)) % 2 = 1 THEN x - Pow2(k) ELSE x + Pow2(k)

(* One bit of a CRC-8 with polynomial 0x07, most significant bit first.     *)
crc8_bit(crc, bit) ==
  LET shifted == (crc * 2) % 256 IN
  IF (crc \div 128) % 2 # bit
    THEN FlipBit(FlipBit(FlipBit(shifted, 0), 1), 2)
    ELSE shifted

(* One bit of a CRC-16 with polynomial 0x8005.                              *)
crc16_bit(crc, bit) ==
  LET shifted == (crc * 2) % 65536 IN
  IF (crc \div 32768) % 2 # bit
    THEN FlipBit(FlipBit(FlipBit(shifted, 0), 2), 15)
    ELSE shifted

crc8_byte(crc, byte) ==
  LET c1 == crc8_bit(crc, (byte \div 128) % 2)
      c2 == crc8_bit(c1, (byte \div 64) % 2)
      c3 == crc8_bit(c2, (byte \div 32) % 2)
      c4 == crc8_bit(c3, (byte \div 16) % 2)
      c5 == crc8_bit(c4, (byte \div 8) % 2)
      c6 == crc8_bit(c5, (byte \div 4) % 2)
      c7 == crc8_bit(c6, (byte \div 2) % 2)
  IN crc8_bit(c7, byte % 2)

crc16_byte(crc, byte) ==
  LET c1 == crc16_bit(crc, (byte \div 128) % 2)
      c2 == crc16_bit(c1, (byte \div 64) % 2)
      c3 == crc16_bit(c2, (byte \div 32) % 2)
      c4 == crc16_bit(c3, (byte \div 16) % 2)
      c5 == crc16_bit(c4, (byte \div 8) % 2)
      c6 == crc16_bit(c5, (byte \div 4) % 2)
      c7 == crc16_bit(c6, (byte \div 2) % 2)
  IN crc16_bit(c7, byte % 2)

(* calculate_crc8(data, len): polynomial 0x07, initial value 0.             *)
RECURSIVE crc8_from(_, _, _)
crc8_from(data, i, crc) ==
  IF i > Len(data) THEN crc
  ELSE LET c == crc8_byte(crc, data[i]) IN After(c, crc8_from(data, i + 1, c))

calculate_crc8(data) == crc8_from(data, 1, 0)

(* calculate_crc16(data, len): polynomial 0x8005, initial value 0, over the *)
(* bytes of buf from offset from (inclusive) to offset to (exclusive).      *)
RECURSIVE crc16_from(_, _, _, _)
crc16_from(buf, i, to, crc) ==
  IF i > to THEN crc
  ELSE LET c == crc16_byte(crc, buf[i]) IN After(c, crc16_from(buf, i + 1, to, c))

calculate_crc16(buf, from, to) == crc16_from(buf, from + 1, to, 0)

(* find_frame_sync: byte-aligns, then scans for 0xFF followed by a byte     *)
(* whose upper seven bits are 1111100.  frame_start_index_ counts the bytes *)
(* read and is moved back over the two sync bytes when they are found.      *)
never_second_ff_byte(byte) == FALSE

(* "found a second 0xff, could be the first byte of the MAGIC NUMBER"       *)
is_second_ff_byte(byte) == byte = 255

RECURSIVE find_frame_sync_loop(_, _)
find_frame_sync_loop(s, second_ff_byte_found) ==
  LET first == IF second_ff_byte_found THEN [s |-> s, v |-> 255]
               ELSE LET r == Call("read_aligned_byte", <<s>>) IN
                    [s |-> [r.s EXCEPT !.frame_start_index_ = @ + 1], v |-> r.v]
  IN IF first.v = 255 THEN
       LET r == Call("read_aligned_byte", <<first.s>>)
           t == [r.s EXCEPT !.frame_start_index_ = @ + 1]
       IN IF is_second_ff_byte(r.v) THEN find_frame_sync_loop(t, TRUE)
          ELSE IF r.v \div 2 = 124
            THEN [s |-> [t EXCEPT !.frame_start_index_ = @ - 2],
                  v |-> FLAC_DECODER_SUCCESS, sync_byte_1 |-> r.v]
            ELSE find_frame_sync_loop(t, FALSE)
     ELSE IF first.s.out_of_data_
       THEN [s |-> first.s, v |-> FLAC_DECODER_ERROR_SYNC_NOT_FOUND, sync_byte_1 |-> 0]
       ELSE find_frame_sync_loop(first.s, FALSE)

find_frame_sync(s) ==
  find_frame_sync_loop(align_to_byte([s EXCEPT !.frame_start_index_ = 0]), FALSE)

(* The frame/sample number of the frame header: a first byte and one more   *)
(* byte for each leading one bit beyond the first.  v is the bytes read.    *)
RECURSIVE read_coded_number(_, _, _)
read_coded_number(s, next_int, raw) ==
  IF next_int >= 192 THEN
    LET next_byte == Call("read_aligned_byte", <<s>>) IN
    read_coded_number(next_byte.s, (next_int * 2) % 256, Append(raw, next_byte.v))
  ELSE [s |-> s, v |-> raw]

(* Reads n (0..2) further header bytes, appended to raw.                    *)
read_header_bytes(s, raw, n) ==
  IF n = 0 THEN [s |-> s, v |-> raw, b |-> <<>>]
  ELSE LET b1 == Call("read_aligned_byte", <<s>>) IN
       IF n = 1 THEN [s |-> b1.s, v |-> Append(raw, b1.v), b |-> <<b1.v>>]
       ELSE LET b2 == Call("read_aligned_byte", <<b1.s>>) IN
            [s |-> b2.s, v |-> raw \o <<b1.v, b2.v>>, b |-> <<b1.v, b2.v>>]

sample_rate_table == <<88200, 176400, 192000, 8000, 16000, 22050, 24000, 32000, 44100, 48000, 96000>>

frame_sample_depth(s, bits_per_sample_code) ==
  CASE bits_per_sample_code = 0 -> s.sample_depth_
    [] bits_per_sample_code = 1 -> 8
    [] bits_per_sample_code = 2 -> 12
    [] bits_per_sample_code = 4 -> 16
    [] bits_per_sample_code = 5 -> 20
    [] bits_per_sample_code = 6 -> 24
    [] OTHER -> 32

(* The second half of decode_frame_header, from the coded number on: the    *)
(* explicit block size and sample rate, CRC-8, and the checks against       *)
(* STREAMINFO.  raw is the four header bytes read so far.                   *)
decode_frame_header_tail(s, raw, block_size_code, sample_rate_code, bits_per_sample_code) ==
  LET next_int == Call("read_aligned_byte", <<s>>)
      number == read_coded_number(next_int.s, next_int.v, Append(raw, next_int.v))
      size == read_header_bytes(number.s, number.v,
                                IF block_size_code = 6 THEN 1
                                ELSE IF block_size_code = 7 THEN 2 ELSE 0)
      sized == IF block_size_code = 6
                 THEN [size.s EXCEPT !.curr_frame_block_size_ = size.b[1] + 1]
               ELSE IF block_size_code = 7
                 THEN [size.s EXCEPT !.curr_frame_block_size_ = size.b[1] * 256 + size.b[2] + 1]
               ELSE size.s
      rate == read_header_bytes(sized, size.v,
                                IF sample_rate_code = 12 THEN 1
                                ELSE IF sample_rate_code \in {13, 14} THEN 2 ELSE 0)
      frame_sample_rate ==
        CASE sample_rate_code = 12 -> rate.b[1] * 1000
          [] sample_rate_code = 13 -> rate.b[1] * 256 + rate.b[2]
          [] sample_rate_code = 14 -> (rate.b[1] * 256 + rate.b[2]) * 10
          [] sample_rate_code = 0 -> s.sample_rate_
          [] OTHER -> sample_rate_table[sample_rate_code]
  IN IF sample_rate_code = 15 THEN [s |-> rate.s, v |-> FLAC_DECODER_ERROR_BAD_HEADER]
     ELSE IF rate.s.out_of_data_ THEN [s |-> rate.s, v |-> FLAC_DECODER_ERROR_OUT_OF_DATA]
     ELSE
       LET crc_read == Call("read_aligned_byte", <<rate.s>>)
           t == crc_read.s
           frame_channels == IF t.curr_frame_channel_assign_ <= 7
                               THEN t.curr_frame_channel_assign_ + 1
                             ELSE IF t.curr_frame_channel_assign_ <= 10 THEN 2
                             ELSE t.num_channels_
       IN [s |-> t,
           v |-> IF t.enable_crc_check_ /\ Call("calculate_crc8", <<rate.v>>) # crc_read.v
                   THEN FLAC_DECODER_ERROR_CRC_MISMATCH
                 ELSE IF frame_channels # t.num_channels_
                   THEN FLAC_DECODER_ERROR_BAD_HEADER
                 ELSE IF bits_per_sample_code # 0
                         /\ t.curr_frame_sample_depth_ # t.sample_depth_
                   THEN FLAC_DECODER_ERROR_BAD_HEADER
                 ELSE IF frame_sample_rate # t.sample_rate_
                   THEN FLAC_DECODER_ERROR_BAD_HEADER
                 ELSE FLAC_DECODER_SUCCESS]

(* decode_frame_header: sync, the two fixed bytes with the block size,      *)
(* sample rate, channel assignment and sample depth codes, then the tail.   *)
decode_frame_header(s) ==
  LET sync == Call("find_frame_sync", <<s>>) IN
  IF sync.v # FLAC_DECODER_SUCCESS
    THEN [s |-> sync.s, v |-> FLAC_DECODER_ERROR_SYNC_NOT_FOUND]
  ELSE IF (sync.sync_byte_1 \div 2) % 2 = 1
    THEN [s |-> sync.s, v |-> FLAC_DECODER_ERROR_BAD_MAGIC_NUMBER]
  ELSE
    LET b2 == Call("read_aligned_byte", <<sync.s>>)
        block_size_code == b2.v \div 16
        sample_rate_code == b2.v % 16
        s2 == IF block_size_code = 1 THEN [b2.s EXCEPT !.curr_frame_block_size_ = 192]
              ELSE IF block_size_code \in 2..5
                THEN [b2.s EXCEPT !.curr_frame_block_size_ = 576 * Pow2(block_size_code - 2)]
              ELSE IF block_size_code \in 8..15
                THEN [b2.s EXCEPT !.curr_frame_block_size_ = 256 * Pow2(block_size_code - 8)]
              ELSE b2.s
    IN IF b2.v = 255 THEN [s |-> b2.s, v |-> FLAC_DECODER_ERROR_SYNC_NOT_FOUND]
       ELSE IF block_size_code = 0
         THEN [s |-> b2.s, v |-> FLAC_DECODER_ERROR_BAD_BLOCK_SIZE_CODE]
       ELSE
         LET b3 == Call("read_aligned_byte", <<s2>>)
             bits_per_sample_code == (b3.v % 16) \div 2
             s3 == [b3.s EXCEPT !.curr_frame_channel_assign_ = b3.v \div 16]
         IN IF b3.v = 255 THEN [s |-> b3.s, v |-> FLAC_DECODER_ERROR_SYNC_NOT_FOUND]
            ELSE IF bits_per_sample_code = 3
              THEN [s |-> s3, v |-> FLAC_DECODER_ERROR_BAD_SAMPLE_DEPTH]
            ELSE decode_frame_header_tail(
                   [s3 EXCEPT !.curr_frame_sample_depth_ =
                                 frame_sample_depth(s3, bits_per_sample_code)],
                   <<255, sync.sync_byte_1, b2.v, b3.v>>,
                   block_size_code, sample_rate_code, bits_per_sample_code)

(* The range of int32_t.                                                    *)
INT32_MAX == (Pow2(30) - 1) + Pow2(30)
INT32_MIN == (0 - Pow2(30)) - Pow2(30)

(* Whether a * b and a + b stay within int32_t (signed overflow is          *)
(* undefined in the target).                                                *)
MulFits(a, b) ==
  IF a = 0 \/ b = 0 THEN TRUE
  ELSE IF a = INT32_MIN THEN b = 1
  ELSE IF b = INT32_MIN THEN a = 1
  ELSE (IF a < 0 THEN 0 - a ELSE a) <= INT32_MAX \div (IF b < 0 THEN 0 - b ELSE b)

AddFits(a, b) ==
  IF a >= 0 /\ b >= 0 THEN a <= INT32_MAX - b
  ELSE IF a < 0 /\ b < 0 THEN a >= INT32_MIN - b
  ELSE TRUE

FIXED_COEFFICIENTS == << <<>>, <<1>>, <<-1, 2>>, <<1, -3, 3>>, <<-1, 4, -6, 4>> >>

(* n values read one after another, by read_rice_sint(param) when rice and  *)
(* by read_sint(param) otherwise.                                           *)
RECURSIVE read_samples(_, _, _, _)
read_samples(s, n, rice, param) ==
  IF n <= 0 THEN [s |-> s, v |-> <<>>]
  ELSE IF n = 1 THEN
    LET r == IF rice THEN Call("read_rice_sint", <<s, param>>) ELSE Call("read_sint", <<s, param>>)
    IN [s |-> r.s, v |-> <<r.v>>]
  ELSE
    LET a == read_samples(s, n \div 2, rice, param) IN
    After(a.v,
      LET b == read_samples(a.s, n - (n \div 2), rice, param) IN
      [s |-> b.s, v |-> a.v \o b.v])

(* A write to block_samples_ at an index outside the allocation, a heap     *)
(* overflow: undefined behaviour, recorded in oob_ as well as in ub_.       *)
out_of_bounds(s) == [s EXCEPT !.ub_ = TRUE, !.oob_ = TRUE]

(* Writes vals to block_samples_[at], block_samples_[at + 1], ...           *)
store_samples(s, at, vals) ==
  IF at + Len(vals) > Len(s.block_samples_) THEN out_of_bounds(s)
  ELSE [s EXCEPT !.block_samples_ =
          [i \in 1..Len(s.block_samples_) |->
             IF i > at /\ i <= at + Len(vals) THEN vals[i - at] ELSE s.block_samples_[i]]]

(* block_samples_[at + i] <<= shift for i < n.                              *)
shift_samples(s, at, n, shift) ==
  IF at + n > Len(s.block_samples_) THEN out_of_bounds(s)
  ELSE IF shift > 31 THEN [s EXCEPT !.ub_ = TRUE]
  ELSE [s EXCEPT !.block_samples_ =
          [i \in 1..Len(s.block_samples_) |->
             IF i > at /\ i <= at + n THEN Shl32(s.block_samples_[i], shift)
             ELSE s.block_samples_[i]]]

(* bitmath_silog2 of a value of n significant bits, n > 0: one more for    *)
(* the sign bit.                                                            *)
bitmath_ilog2(n) == n

bitmath_silog2(n) == n + 1

(* The sum of the absolute values of the coefficients.                      *)
RECURSIVE abs_sum_of_qlp_coeff(_, _)
abs_sum_of_qlp_coeff(coefs, i) ==
  IF i > Len(coefs) THEN 0
  ELSE (IF coefs[i] < 0 THEN 0 - coefs[i] ELSE coefs[i]) + abs_sum_of_qlp_coeff(coefs, i + 1)

(* lpc_max_prediction_before_shift_bps: silog2 of 2^(bps-1) * abs sum.      *)
lpc_max_prediction_before_shift_bps(subframe_bps, coefs) ==
  LET a == abs_sum_of_qlp_coeff(coefs, 1) IN
  IF a = 0 THEN 0 ELSE bitmath_silog2(subframe_bps - 1 + BitLen(a))

(* Whether lpc_max_residual_bps <= 32: the largest residual, 2^(bps-1) plus *)
(* the prediction shifted down (rounded up), is below 2^31.                 *)
lpc_max_residual_fits(subframe_bps, coefs, lp_quantization) ==
  LET a == abs_sum_of_qlp_coeff(coefs, 1)
      up == subframe_bps - 1 - lp_quantization
  IN IF subframe_bps > 31 THEN FALSE
     ELSE IF a = 0 THEN TRUE
     ELSE IF up >= 0 THEN
       IF BitLen(a) + up > 31 THEN FALSE
       ELSE a * Pow2(up) <= INT32_MAX - Pow2(subframe_bps - 1)
     ELSE ((a + Pow2(0 - up)) - 1) \div Pow2(0 - up) <= INT32_MAX - Pow2(subframe_bps - 1)

(* The 32-bit restore taken for every predictor.                            *)
always_use_32bit_lpc(sample_depth, coefs, shift) == [ub |-> FALSE, v |-> TRUE]

(* can_use_32bit_lpc.  A depth outside 1..64 or a negative quantization     *)
(* shift makes a shift count undefined.                                     *)
can_use_32bit_lpc(sample_depth, coefs, shift) ==
  [ub |-> sample_depth < 1 \/ sample_depth > 64 \/ shift < 0,
   v |-> /\ sample_depth >= 1
         /\ shift >= 0
         /\ lpc_max_residual_fits(sample_depth, coefs, shift)
         /\ lpc_max_prediction_before_shift_bps(sample_depth, coefs) <= 32]

(* The prediction sum over the coefficients for output sample i (0-based).  *)
(* fits records that no product or partial sum left the int32_t range.      *)
RECURSIVE lpc_sum(_, _, _, _, _)
lpc_sum(buf, coefs, i, j, acc) ==
  IF j > Len(coefs) \/ ~acc.fits THEN acc
  ELSE
    LET ok == MulFits(buf[i + j], coefs[j])
        term == IF ok THEN buf[i + j] * coefs[j] ELSE 0
        sum == [fits |-> ok /\ AddFits(acc.v, term),
                v |-> IF ok /\ AddFits(acc.v, term) THEN acc.v + term ELSE 0]
    IN After(sum, lpc_sum(buf, coefs, i, j + 1, sum))

(* The outer loop of restore_linear_prediction: sample i + order gains the  *)
(* prediction shifted right.                                                *)
RECURSIVE restore_loop(_, _, _, _, _)
restore_loop(b, coefs, shift, i, bound) ==
  IF i >= bound \/ b.ub THEN b
  ELSE
    LET sum == lpc_sum(b.buf, coefs, i, 1, [fits |-> TRUE, v |-> 0])
        at == i + Len(coefs) + 1
        add == sum.v \div Pow2(shift)
        ok == sum.fits /\ AddFits(b.buf[at], add)
        next == [ub |-> ~ok,
                 buf |-> IF ok THEN [b.buf EXCEPT ![at] = @ + add] ELSE b.buf]
    IN After(next.buf, restore_loop(next, coefs, shift, i + 1, bound))

(* restore_linear_prediction_32bit on the num_of_samples samples from       *)
(* block_samples_[at].  More coefficients than samples wrap the loop bound. *)
restore_linear_prediction_32bit(s, at, num_of_samples, coefs, shift) ==
  IF Len(coefs) > num_of_samples \/ at + num_of_samples > Len(s.block_samples_)
    THEN out_of_bounds(s)
  ELSE IF shift < 0 \/ shift > 31 THEN [s EXCEPT !.ub_ = TRUE]
  ELSE
    LET r == restore_loop([ub |-> FALSE,
                           buf |-> SubSeq(s.block_samples_, at + 1, at + num_of_samples)],
                          coefs, shift, 0, num_of_samples - Len(coefs))
    IN IF r.ub THEN [s EXCEPT !.ub_ = TRUE] ELSE store_samples(s, at, r.buf)

(* restore_linear_prediction_64bit: the same loop with a 64-bit sum, which  *)
(* cannot overflow; evaluated here for sums within 32 bits, where the two   *)
(* widths agree on the value.                                               *)
restore_linear_prediction_64bit(s, at, num_of_samples, coefs, shift) ==
  IF Len(coefs) > num_of_samples \/ at + num_of_samples > Len(s.block_samples_)
    THEN out_of_bounds(s)
  ELSE IF shift < 0 THEN [s EXCEPT !.ub_ = TRUE]
  ELSE
    LET r == restore_loop([ub |-> FALSE,
                           buf |-> SubSeq(s.block_samples_, at + 1, at + num_of_samples)],
                          coefs, shift, 0, num_of_samples - Len(coefs))
    IN IF r.ub THEN [s EXCEPT !.wide_ = TRUE] ELSE store_samples(s, at, r.buf)

(* One residual partition of count samples: a Rice parameter, then either  *)
(* Rice-coded values or, behind the escape code, raw values of num_bits     *)
(* bits (zeros when num_bits is 0).                                         *)
decode_partition(s, count, param_bits, escape_param) ==
  LET param == Call("read_uint", <<s, param_bits>>) IN
  IF param.v < escape_param THEN Call("read_samples", <<param.s, count, TRUE, param.v>>)
  ELSE
    LET num_bits == Call("read_uint", <<param.s, 5>>) IN
    IF num_bits.v = 0 THEN [s |-> num_bits.s, v |-> [j \in 1..count |-> 0]]
    ELSE Call("read_samples", <<num_bits.s, count, FALSE, num_bits.v>>)

RECURSIVE decode_partitions(_, _, _, _, _, _)
decode_partitions(s, i, num_partitions, count, param_bits, escape_param) ==
  IF i >= num_partitions THEN [s |-> s, v |-> <<>>]
  ELSE
    LET a == decode_partition(s, count, param_bits, escape_param) IN
    After(a.v,
      LET b == decode_partitions(a.s, i + 1, num_partitions, count, param_bits, escape_param)
      IN [s |-> b.s, v |-> a.v \o b.v])

(* decode_residuals into the subframe at block_samples_[at], behind the     *)
(* warm-up samples.  The first partition holds warm_up_samples fewer        *)
(* values; the count is unsigned, so more warm-up samples than the          *)
(* partition holds wrap it and the writes run off the allocation.           *)
decode_residuals(s, at, warm_up_samples, block_size) ==
  LET method == Call("read_uint", <<s, 2>>)
      param_bits == IF method.v = 1 THEN 5 ELSE 4
      escape_param == IF method.v = 1 THEN 31 ELSE 15
      partition_order == Call("read_uint", <<method.s, 4>>)
      num_partitions == Pow2(partition_order.v)
      count == block_size \div num_partitions
  IN IF method.v >= 2
       THEN [s |-> method.s, v |-> FLAC_DECODER_ERROR_RESERVED_RESIDUAL_CODING_METHOD]
     ELSE IF block_size % num_partitions # 0
       THEN [s |-> partition_order.s, v |-> FLAC_DECODER_ERROR_BLOCK_SIZE_NOT_DIVISIBLE_RICE]
     ELSE IF count < warm_up_samples
       THEN [s |-> out_of_bounds(partition_order.s), v |-> FLAC_DECODER_SUCCESS]
     ELSE
       LET first == decode_partition(partition_order.s, count - warm_up_samples,
                                     param_bits, escape_param)
           rest == decode_partitions(first.s, 1, num_partitions, count,
                                     param_bits, escape_param)
       IN [s |-> store_samples(rest.s, at + warm_up_samples, first.v \o rest.v),
           v |-> FLAC_DECODER_SUCCESS]

(* The prediction restore shared by the fixed and LPC subframes: 32-bit     *)
(* arithmetic when can_use_32bit_lpc allows it, 64-bit otherwise.           *)
restore_linear_prediction(s, at, block_size, sample_depth, coefs, shift) ==
  LET can == can_use_32bit_lpc(sample_depth, coefs, shift) IN
  IF can.ub THEN [s EXCEPT !.ub_ = TRUE]
  ELSE IF can.v THEN restore_linear_prediction_32bit(s, at, block_size, coefs, shift)
  ELSE restore_linear_prediction_64bit(s, at, block_size, coefs, shift)

(* decode_fixed_subframe: pre_order warm-up samples, residuals, and the     *)
(* fixed predictor of that order.                                           *)
decode_fixed_subframe(s, block_size, at, pre_order, sample_depth) ==
  IF pre_order > 4 THEN [s |-> s, v |-> FLAC_DECODER_ERROR_BAD_FIXED_PREDICTION_ORDER]
  ELSE
    LET warm == Call("read_samples", <<s, pre_order, FALSE, sample_depth>>)
        res == Call("decode_residuals", <<store_samples(warm.s, at, warm.v), at, pre_order, block_size>>)
    IN IF res.v # FLAC_DECODER_SUCCESS \/ res.s.ub_ THEN res
       ELSE [s |-> Call("restore_linear_prediction", <<res.s, at, block_size, sample_depth,
                                             FIXED_COEFFICIENTS[pre_order + 1], 0>>),
             v |-> FLAC_DECODER_SUCCESS]

(* The coefficients of an LPC subframe are stored last to first.            *)
Reverse(seq) == [i \in 1..Len(seq) |-> seq[Len(seq) + 1 - i]]

(* decode_lpc_subframe: lpc_order warm-up samples, the coefficient          *)
(* precision and shift, the coefficients, residuals, and the predictor.     *)
decode_lpc_subframe(s, block_size, at, lpc_order, sample_depth) ==
  LET warm == Call("read_samples", <<s, lpc_order, FALSE, sample_depth>>)
      precision == Call("read_uint", <<store_samples(warm.s, at, warm.v), 4>>)
      shift == Call("read_sint", <<precision.s, 5>>)
      coefs == Call("read_samples", <<shift.s, lpc_order, FALSE, precision.v + 1>>)
      res == Call("decode_residuals", <<coefs.s, at, lpc_order, block_size>>)
  IN IF res.v # FLAC_DECODER_SUCCESS \/ res.s.ub_ THEN res
     ELSE [s |-> Call("restore_linear_prediction", <<res.s, at, block_size, sample_depth,
                                           Reverse(coefs.v), shift.v>>),
           v |-> FLAC_DECODER_SUCCESS]

(* The wasted-bits count of a subframe whose flag bit is set: one more than *)
(* the zero bits before the next one bit.  ok is false when the input ran   *)
(* out inside the count.                                                    *)
read_wasted_bits(s) ==
  IF s.out_of_data_ THEN
    LET bit == Call("read_uint", <<s, 1>>) IN
    [s |-> bit.s, v |-> IF bit.v = 0 THEN 2 ELSE 1, ok |-> bit.v # 0]
  ELSE
    LET u == Call("read_unary", <<s, 0>>) IN [s |-> u.s, v |-> u.v + 1, ok |-> u.ok]

(* decode_subframe: a padding bit, the 6-bit type, the wasted-bits flag and *)
(* count, then the samples by type; wasted bits are shifted back in.        *)
decode_subframe(s, block_size, sample_depth, at) ==
  LET padding == Call("read_uint", <<s, 1>>)
      type == Call("read_uint", <<padding.s, 6>>)
      flag == Call("read_uint", <<type.s, 1>>)
      wasted == IF flag.v = 1 THEN read_wasted_bits(flag.s)
                ELSE [s |-> flag.s, v |-> 0, ok |-> TRUE]
      shift == wasted.v
      depth == sample_depth - shift
  IN IF ~wasted.ok THEN [s |-> wasted.s, v |-> FLAC_DECODER_ERROR_OUT_OF_DATA]
     ELSE IF type.v = 0 THEN
       LET value == Call("read_sint", <<wasted.s, depth>>) IN
       [s |-> IF shift > 31 THEN [value.s EXCEPT !.ub_ = TRUE]
              ELSE store_samples(value.s, at, [i \in 1..block_size |-> Shl32(value.v, shift)]),
        v |-> FLAC_DECODER_SUCCESS]
     ELSE IF type.v = 1 THEN
       LET samples == Call("read_samples", <<wasted.s, block_size, FALSE, depth>>) IN
       [s |-> IF shift > 31 THEN [samples.s EXCEPT !.ub_ = TRUE]
              ELSE store_samples(samples.s, at,
                                 [i \in 1..block_size |-> Shl32(samples.v[i], shift)]),
        v |-> FLAC_DECODER_SUCCESS]
     ELSE IF type.v \in 8..12 \/ type.v \in 32..63 THEN
       LET r == IF type.v <= 12
                  THEN Call("decode_fixed_subframe", <<wasted.s, block_size, at, type.v - 8, depth>>)
                  ELSE Call("decode_lpc_subframe", <<wasted.s, block_size, at, type.v - 31, depth>>)
       IN IF r.v # FLAC_DECODER_SUCCESS \/ shift = 0 \/ r.s.ub_ THEN r
          ELSE [s |-> shift_samples(r.s, at, block_size, shift), v |-> r.v]
     ELSE [s |-> wasted.s, v |-> FLAC_DECODER_ERROR_RESERVED_SUBFRAME_TYPE]

(* The independent channels of channel assignments 0..7, one subframe each. *)
RECURSIVE decode_independent(_, _, _, _, _)
decode_independent(s, block_size, sample_depth, i, channels) ==
  IF i >= channels THEN [s |-> s, v |-> FLAC_DECODER_SUCCESS]
  ELSE
    LET r == Call("decode_subframe", <<s, block_size, sample_depth, i * block_size>>) IN
    IF r.v # FLAC_DECODER_SUCCESS THEN r
    ELSE decode_independent(r.s, block_size, sample_depth, i + 1, channels)

(* Whether a - b stays within int32_t.                                      *)
SubFits(a, b) ==
  IF b >= 0 THEN a >= INT32_MIN + b ELSE a <= INT32_MAX + b

(* The right channel of a mid/side pair: the mid sample less half the side  *)
(* sample, by arithmetic shift (side >> 1 rounds down, unlike side / 2).    *)
mid_side_right_by_division(mid, side) ==
  mid - (IF side < 0 THEN (side + 1) \div 2 ELSE side \div 2)

mid_side_right(mid, side) == mid - (side \div 2)

(* The stereo decorrelation of channel assignments 8 (left/side),           *)
(* 9 (side/right) and 10 (mid/side), in place.                              *)
decorrelate(s, block_size, channel_assignment) ==
  LET b == s.block_samples_
      n == block_size
      right10(i) == mid_side_right(b[i], b[n + i])
      fits == \A i \in 1..n :
                IF channel_assignment = 8 THEN SubFits(b[i], b[n + i])
                ELSE IF channel_assignment = 9 THEN AddFits(b[i], b[n + i])
                ELSE /\ SubFits(b[i], b[n + i] \div 2)
                     /\ AddFits(right10(i), b[n + i])
  IN IF 2 * n > Len(b) THEN out_of_bounds(s)
     ELSE IF ~fits THEN [s EXCEPT !.ub_ = TRUE]
     ELSE [s EXCEPT !.block_samples_ =
             [k \in 1..Len(b) |->
                IF k <= n THEN
                  (IF channel_assignment = 8 THEN b[k]
                   ELSE IF channel_assignment = 9 THEN b[k] + b[n + k]
                   ELSE right10(k) + b[n + k])
                ELSE IF k <= 2 * n THEN
                  (IF channel_assignment = 8 THEN b[k - n] - b[k]
                   ELSE IF channel_assignment = 9 THEN b[k]
                   ELSE right10(k - n))
                ELSE b[k]]]

(* decode_subframes: the subframes of the frame's channels and, for the     *)
(* stereo modes, the decorrelation.  The side channel has one more bit.     *)
decode_subframes(s, block_size, sample_depth, channel_assignment) ==
  IF channel_assignment <= 7
    THEN decode_independent(s, block_size, sample_depth, 0, channel_assignment + 1)
  ELSE IF channel_assignment <= 10 THEN
    LET first == Call("decode_subframe", <<s, block_size,
                                 sample_depth + (IF channel_assignment = 9 THEN 1 ELSE 0), 0>>)
    IN IF first.v # FLAC_DECODER_SUCCESS THEN first
       ELSE
         LET second == Call("decode_subframe", <<first.s, block_size,
                                       sample_depth + (IF channel_assignment = 9 THEN 0 ELSE 1),
                                       block_size>>)
         IN IF second.v # FLAC_DECODER_SUCCESS \/ second.s.ub_ THEN second
            ELSE [s |-> decorrelate(second.s, block_size, channel_assignment),
                  v |-> FLAC_DECODER_SUCCESS]
  ELSE [s |-> s, v |-> FLAC_DECODER_ERROR_RESERVED_CHANNEL_ASSIGNMENT]

(* The output of the write_samples_* family: the frame's samples            *)
(* interleaved by channel, each converted by conv and stored in bytes       *)
(* bytes, least significant first.  A read past the allocation happens     *)
(* only after a store past it, which ub_ records; it stands for 0 here.     *)
interleaved_bytes(s, block_size, bytes, conv(_)) ==
  LET channels == s.num_channels_ IN
  [q \in 1..(block_size * channels * bytes) |->
     LET k == q - 1
         i == k \div (channels * bytes)
         j == (k \div bytes) % channels
         at == j * block_size + i + 1
         x == IF at > Len(s.block_samples_) THEN 0 ELSE s.block_samples_[at]
     IN (conv(x) \div Pow2(8 * (k % bytes))) % 256]

write_samples_16bit_stereo(s, block_size) ==
  interleaved_bytes(s, block_size, 2, LAMBDA x : x)

write_samples_16bit_mono(s, block_size) ==
  interleaved_bytes(s, block_size, 2, LAMBDA x : x)

write_samples_24bit_stereo(s, block_size) ==
  interleaved_bytes(s, block_size, 3, LAMBDA x : x)

(* 8-bit output is unsigned: 128 is added.  Depths that are not a multiple  *)
(* of 8 are shifted up to fill their bytes.                                 *)
write_samples_general(s, block_size, bytes_per_sample, shift_amount, sample_depth) ==
  interleaved_bytes(s, block_size, bytes_per_sample,
    LAMBDA x : Shl32(IF sample_depth # 8 THEN x
                     ELSE IF AddFits(x, 128) THEN x + 128
                     ELSE ((x - Pow2(30)) - Pow2(30)) + ((128 - Pow2(30)) - Pow2(30)),
                     shift_amount))

write_samples_32bit_stereo(s, block_size, shift_amount) ==
  interleaved_bytes(s, block_size, 4, LAMBDA x : Shl32(x, shift_amount))

write_samples_32bit_mono(s, block_size, shift_amount) ==
  interleaved_bytes(s, block_size, 4, LAMBDA x : Shl32(x, shift_amount))

write_samples_32bit_general(s, block_size, shift_amount) ==
  interleaved_bytes(s, block_size, 4, LAMBDA x : Shl32(x, shift_amount))

(* The output stage of decode_frame: the writer chosen by output mode,      *)
(* sample depth and channel count.                                          *)
write_samples(s) ==
  LET block_size == s.curr_frame_block_size_
      depth == s.curr_frame_sample_depth_
      bytes_per_sample == (depth + 7) \div 8
      shift_amount == IF depth % 8 # 0 THEN 8 - (depth % 8) ELSE 0
  IN IF s.output_32bit_samples_ THEN
       IF s.num_channels_ = 2 THEN write_samples_32bit_stereo(s, block_size, 32 - depth)
       ELSE IF s.num_channels_ = 1 THEN write_samples_32bit_mono(s, block_size, 32 - depth)
       ELSE write_samples_32bit_general(s, block_size, 32 - depth)
     ELSE IF depth = 16 /\ s.num_channels_ = 2 THEN write_samples_16bit_stereo(s, block_size)
     ELSE IF depth = 16 /\ s.num_channels_ = 1 THEN write_samples_16bit_mono(s, block_size)
     ELSE IF depth = 24 /\ s.num_channels_ = 2 THEN write_samples_24bit_stereo(s, block_size)
     ELSE write_samples_general(s, block_size, bytes_per_sample, shift_amount, depth)

(* The result of malloc: NULL, or an allocation whose uninitialised cells   *)
(* hold fill.                                                               *)
NULL == [ok |-> FALSE, fill |-> 0]

Allocated(fill) == [ok |-> TRUE, fill |-> fill]

(* The test decode_frame makes of the block size of the frame header       *)
(* against STREAMINFO's maximum, for which block_samples_ was allocated.    *)
block_size_never_out_of_range(s) == FALSE

block_size_out_of_range(s) == s.curr_frame_block_size_ > s.max_block_size_

(* The test decode_frame makes for an empty input.                          *)
input_never_empty(s) == FALSE

input_is_empty(s) == s.bytes_left_ = 0

(* The comparison of the CRC-16 read from the frame's trailer with the one  *)
(* calculated over the frame.                                               *)
crc16_never_differs(crc_calculated, crc_read) == FALSE

crc16_differs(crc_calculated, crc_read) == crc_calculated # crc_read

(* decode_frame(buffer, buffer_length, output_buffer, num_samples).         *)
(* malloc_result is NULL or the value the fresh, uninitialised allocation   *)
(* happens to hold; it is used only by the call that allocates.  The result *)
(* carries *num_samples and, when written is true, the output bytes.  The   *)
(* result of decode_subframes is not looked at.                             *)
decode_frame(d, buffer, malloc_result) ==
  LET s0 == [d EXCEPT !.buffer_ = buffer, !.buffer_index_ = 0,
                      !.bytes_left_ = Len(buffer), !.out_of_data_ = FALSE]
      s1 == IF s0.block_samples_null_ /\ malloc_result.ok
              THEN [s0 EXCEPT !.block_samples_ =
                                 [i \in 1..(s0.max_block_size_ * s0.num_channels_) |->
                                    malloc_result.fill],
                              !.block_samples_null_ = FALSE]
              ELSE s0
      Return(s, v, n) == [s |-> s, v |-> v, num_samples |-> n, written |-> FALSE, out |-> <<>>]
  IN IF s1.block_samples_null_
       THEN Return(s1, FLAC_DECODER_ERROR_MEMORY_ALLOCATION_ERROR, 0)
     ELSE IF input_is_empty(s1) THEN Return(s1, FLAC_DECODER_NO_MORE_FRAMES, 0)
     ELSE
       LET header == Call("decode_frame_header", <<s1>>) IN
       IF header.v # FLAC_DECODER_SUCCESS
         THEN Return(reset_bit_buffer(header.s), header.v, 0)
       ELSE IF block_size_out_of_range(header.s)
         THEN Return(header.s, FLAC_DECODER_ERROR_BLOCK_SIZE_OUT_OF_RANGE, 0)
       ELSE
         LET subframes == Call("decode_subframes", <<header.s, header.s.curr_frame_block_size_,
                                           header.s.curr_frame_sample_depth_,
                                           header.s.curr_frame_channel_assign_>>)
             aligned == align_to_byte(subframes.s)
             n == aligned.curr_frame_block_size_ * aligned.num_channels_
         IN IF aligned.bit_buffer_length_ \div 8 + aligned.bytes_left_ < 2
              THEN Return(reset_bit_buffer(aligned), FLAC_DECODER_ERROR_OUT_OF_DATA, n)
            ELSE
              LET frame_end_index == aligned.buffer_index_ - aligned.bit_buffer_length_ \div 8
                  crc_read == Call("read_uint", <<aligned, 16>>)
                  t == crc_read.s
              IN IF /\ t.enable_crc_check_
                    /\ frame_end_index > t.frame_start_index_
                    /\ crc16_differs(Call("calculate_crc16",
                                          <<buffer, t.frame_start_index_, frame_end_index>>),
                                     crc_read.v)
                   THEN Return(t, FLAC_DECODER_ERROR_CRC_MISMATCH, n)
                 ELSE [s |-> reset_bit_buffer(t), v |-> FLAC_DECODER_SUCCESS,
                       num_samples |-> n, written |-> TRUE, out |-> Call("write_samples", <<t>>)]

(* set_crc_check_enabled and set_output_32bit_samples.                      *)
set_crc_check_enabled(s, enabled) == [s EXCEPT !.enable_crc_check_ = enabled]

set_output_32bit_samples(s, enabled) == [s EXCEPT !.output_32bit_samples_ = enabled]

(* A run of read_uint calls of the given widths, in order: the values read *)
(* and the decoder after the last one.                                     *)
RECURSIVE read_uints_range(_, _, _, _)
read_uints_range(s, widths, lo, hi) ==
  IF lo > hi THEN [s |-> s, v |-> <<>>]
  ELSE IF lo = hi THEN LET r == Call("read_uint", <<s, widths[lo]>>) IN [s |-> r.s, v |-> <<r.v>>]
  ELSE LET mid == (lo + hi) \div 2
           a == read_uints_range(s, widths, lo, mid)
       IN After(a.v, LET b == read_uints_range(a.s, widths, mid + 1, hi)
                   IN [s |-> b.s, v |-> a.v \o b.v])

read_uints(s, widths) == read_uints_range(s, widths, 1, Len(widths))

----------------------------------------------------------------------------
(* Header parsing (flac_decoder.cpp, FLACDecoder::read_header).            *)

(* The switch on partial_header_type_ that picks the limit of a block.     *)
max_size_of(s, type) ==
  CASE type = FLAC_METADATA_TYPE_PADDING -> s.max_padding_size_
    [] type = FLAC_METADATA_TYPE_APPLICATION -> s.max_application_size_
    [] type = FLAC_METADATA_TYPE_SEEKTABLE -> s.max_seektable_size_
    [] type = FLAC_METADATA_TYPE_VORBIS_COMMENT -> s.max_vorbis_comment_size_
    [] type = FLAC_METADATA_TYPE_CUESHEET -> s.max_cuesheet_size_
    [] type = FLAC_METADATA_TYPE_PICTURE -> s.max_album_art_size_
    [] OTHER -> s.max_unknown_size_

(* Whether a block body is consumed without being kept.                    *)
should_skip(s) ==
  /\ s.partial_header_type_ # FLAC_METADATA_TYPE_STREAMINFO
  /\ s.partial_header_length_ > max_size_of(s, s.partial_header_type_)

(* The 32-bit block header: last flag, type, length.                       *)
read_block_header(s) ==
  LET r == read_uints(s, <<1, 7, 24>>) IN
  [r.s EXCEPT !.partial_header_last_ = (r.v[1] # 0),
              !.partial_header_type_ = r.v[2],
              !.partial_header_length_ = r.v[3],
              !.partial_header_bytes_read_ = 0,
              !.partial_header_data_ = <<>>]

(* The STREAMINFO body, read in one go whatever the input holds.           *)
(* num_samples_ is 36 bits wide: kept as <<high 4 bits, low 32 bits>>.     *)
read_streaminfo(s) ==
  LET r == read_uints(s, <<16, 16, 24, 24, 20, 3, 5>>)
      hi == After(r.v, Call("read_uint", <<r.s, 4>>))
      lo == After(hi.v, read_uint_32(hi.s))
      m == After(lo.v, read_uints(lo.s, [i \in 1..16 |-> 8]))
  IN [m.s EXCEPT !.min_block_size_ = r.v[1],
                 !.max_block_size_ = r.v[2],
                 !.sample_rate_ = r.v[5],
                 !.num_channels_ = r.v[6] + 1,
                 !.sample_depth_ = r.v[7] + 1,
                 !.num_samples_ = <<hi.v, lo.v>>,
                 !.md5_signature_ = m.v,
                 !.partial_header_length_ = 0,
                 !.partial_header_bytes_read_ = 0]

(* Body bytes of a block over its limit: read and dropped.                 *)
skip_block_bytes(s) ==
  LET bytes_to_skip == Min(s.partial_header_length_ - s.partial_header_bytes_read_,
                           s.bytes_left_)
      r == read_uints(s, [i \in 1..bytes_to_skip |-> 8])
      t == [r.s EXCEPT !.partial_header_bytes_read_ = @ + bytes_to_skip]
  IN IF t.partial_header_bytes_read_ = t.partial_header_length_
       THEN [t EXCEPT !.partial_header_length_ = 0,
                      !.partial_header_bytes_read_ = 0,
                      !.partial_header_data_ = <<>>]
       ELSE t

(* Body bytes of a block within its limit: accumulated, and committed as a *)
(* FLACMetadataBlock once partial_header_bytes_read_ reaches the length.   *)
store_block_bytes(s) ==
  LET bytes_to_read == Min(s.partial_header_length_ - s.partial_header_bytes_read_,
                           s.bytes_left_)
      r == read_uints(s, [i \in 1..bytes_to_read |-> 8])
      t == [r.s EXCEPT !.partial_header_data_ = @ \o r.v,
                       !.partial_header_bytes_read_ = @ + bytes_to_read]
  IN IF t.partial_header_bytes_read_ = t.partial_header_length_
       THEN [t EXCEPT !.metadata_blocks_ =
                         Append(@, [type |-> t.partial_header_type_,
                                    length |-> t.partial_header_length_,
                                    data |-> t.partial_header_data_]),
                      !.partial_header_length_ = 0,
                      !.partial_header_bytes_read_ = 0,
                      !.partial_header_data_ = <<>>]
       ELSE t

(* validate_streaminfo without its lower bound on min_block_size_.         *)
validate_streaminfo_no_min(s) ==
  IF \/ s.sample_rate_ = 0 \/ s.num_channels_ = 0 \/ s.sample_depth_ = 0
     \/ s.max_block_size_ = 0
    THEN [s |-> s, v |-> FLAC_DECODER_ERROR_BAD_HEADER]
  ELSE IF \/ s.min_block_size_ > s.max_block_size_
          \/ s.max_block_size_ > 65535
    THEN [s |-> s, v |-> FLAC_DECODER_ERROR_BAD_HEADER]
  ELSE [s |-> reset_bit_buffer(s), v |-> FLAC_DECODER_SUCCESS]

(* The checks on the stream properties once the last block is consumed.    *)
validate_streaminfo(s) ==
  IF \/ s.sample_rate_ = 0 \/ s.num_channels_ = 0 \/ s.sample_depth_ = 0
     \/ s.max_block_size_ = 0
    THEN [s |-> s, v |-> FLAC_DECODER_ERROR_BAD_HEADER]
  ELSE IF \/ s.min_block_size_ < 16
          \/ s.min_block_size_ > s.max_block_size_
          \/ s.max_block_size_ > 65535
    THEN [s |-> s, v |-> FLAC_DECODER_ERROR_BAD_HEADER]
  ELSE [s |-> reset_bit_buffer(s), v |-> FLAC_DECODER_SUCCESS]

(* The while loop over the metadata blocks, and what follows it.           *)
RECURSIVE read_header_blocks(_)
read_header_blocks(s) ==
  IF ~s.partial_header_last_ \/ s.partial_header_length_ > 0 THEN
    IF s.bytes_left_ = 0 THEN
      [s |-> reset_bit_buffer([s EXCEPT !.partial_header_read_ = TRUE]),
       v |-> FLAC_DECODER_HEADER_OUT_OF_DATA]
    ELSE
      LET h == IF s.partial_header_length_ = 0 THEN read_block_header(s) ELSE s IN
      read_header_blocks(
        IF h.partial_header_type_ = FLAC_METADATA_TYPE_STREAMINFO THEN read_streaminfo(h)
        ELSE IF should_skip(h) THEN skip_block_bytes(h)
        ELSE store_block_bytes(h))
  ELSE validate_streaminfo(s)

(* read_header(buffer, buffer_length): [s |-> decoder, v |-> result].      *)
read_header(d, buffer) ==
  LET s0 == [d EXCEPT !.buffer_ = buffer,
                      !.buffer_index_ = 0,
                      !.bytes_left_ = Len(buffer),
                      !.bit_buffer_ = 0,
                      !.bit_buffer_length_ = 0,
                      !.out_of_data_ = (Len(buffer) = 0)]
  IN IF ~s0.partial_header_read_ THEN
       LET m == read_uint_32([s0 EXCEPT !.metadata_blocks_ = <<>>,
                                        !.partial_header_data_ = <<>>])
       IN IF m.v # <<MAGIC_NUMBER \div 65536, MAGIC_NUMBER % 65536>>
            THEN [s |-> m.s, v |-> FLAC_DECODER_ERROR_BAD_MAGIC_NUMBER]
            ELSE read_header_blocks(m.s)
     ELSE read_header_blocks(s0)

(* set_max_metadata_size(type, max_size).                                  *)
(* Call(f, a): the call of method f with the arguments a.  The decoder's   *)
(* methods call one another through it.                                     *)
Call(f, a) ==
  CASE f = "read_uint" -> read_uint(a[1], a[2])
    [] f = "read_aligned_byte" -> read_aligned_byte(a[1])
    [] f = "read_sint" -> read_sint(a[1], a[2])
    [] f = "read_unary" -> read_unary(a[1], a[2])
    [] f = "read_rice_sint" -> read_rice_sint(a[1], a[2])
    [] f = "read_samples" -> read_samples(a[1], a[2], a[3], a[4])
    [] f = "calculate_crc8" -> calculate_crc8(a[1])
    [] f = "calculate_crc16" -> calculate_crc16(a[1], a[2], a[3])
    [] f = "find_frame_sync" -> find_frame_sync(a[1])
    [] f = "decode_frame_header" -> decode_frame_header(a[1])
    [] f = "restore_linear_prediction" -> restore_linear_prediction(a[1], a[2], a[3], a[4], a[5], a[6])
    [] f = "decode_residuals" -> decode_residuals(a[1], a[2], a[3], a[4])
    [] f = "decode_fixed_subframe" -> decode_fixed_subframe(a[1], a[2], a[3], a[4], a[5])
    [] f = "decode_lpc_subframe" -> decode_lpc_subframe(a[1], a[2], a[3], a[4], a[5])
    [] f = "decode_subframe" -> decode_subframe(a[1], a[2], a[3], a[4])
    [] f = "decode_subframes" -> decode_subframes(a[1], a[2], a[3], a[4])
    [] f = "write_samples" -> write_samples(a[1])
    [] f = "decode_frame" -> decode_frame(a[1], a[2], a[3])
    [] f = "read_header" -> read_header(a[1], a[2])

set_max_metadata_size(s, type, max_size) ==
  CASE type = FLAC_METADATA_TYPE_PADDING -> [s EXCEPT !.max_padding_size_ = max_size]
    [] type = FLAC_METADATA_TYPE_APPLICATION -> [s EXCEPT !.max_application_size_ = max_size]
    [] type = FLAC_METADATA_TYPE_SEEKTABLE -> [s EXCEPT !.max_seektable_size_ = max_size]
    [] type = FLAC_METADATA_TYPE_VORBIS_COMMENT ->
         [s EXCEPT !.max_vorbis_comment_size_ = max_size]
    [] type = FLAC_METADATA_TYPE_CUESHEET -> [s EXCEPT !.max_cuesheet_size_ = max_size]
    [] type = FLAC_METADATA_TYPE_PICTURE -> [s EXCEPT !.max_album_art_size_ = max_size]
    [] OTHER -> [s EXCEPT !.max_unknown_size_ = max_size]

(* get_bytes_index(): the caller's bytes_consumed().                       *)
get_bytes_index(s) == s.buffer_index_

(* A decoder as constructed: the member initialisers of flac_decoder.h.    *)
(* block_samples_ = <<>> with block_samples_null_ is the nullptr.          *)
FLACDecoder ==
  [buffer_ |-> <<>>, buffer_index_ |-> 0, bytes_left_ |-> 0, frame_start_index_ |-> 0,
   bit_buffer_ |-> 0, bit_buffer_length_ |-> 0,
   min_block_size_ |-> 0, max_block_size_ |-> 0, sample_rate_ |-> 0, num_channels_ |-> 0,
   sample_depth_ |-> 0, num_samples_ |-> <<0, <<0, 0>>>>, md5_signature_ |-> [i \in 1..16 |-> 0],
   curr_frame_block_size_ |-> 0, curr_frame_channel_assign_ |-> 0,
   curr_frame_sample_depth_ |-> 0,
   block_samples_ |-> <<>>, block_samples_null_ |-> TRUE,
   out_of_data_ |-> FALSE, enable_crc_check_ |-> TRUE, output_32bit_samples_ |-> FALSE,
   partial_header_read_ |-> FALSE, partial_header_last_ |-> FALSE,
   partial_header_type_ |-> 0, partial_header_length_ |-> 0,
   partial_header_bytes_read_ |-> 0, partial_header_data_ |-> <<>>,
   metadata_blocks_ |-> <<>>,
   max_padding_size_ |-> DEFAULT_MAX_PADDING_SIZE,
   max_application_size_ |-> DEFAULT_MAX_APPLICATION_SIZE,
   max_seektable_size_ |-> DEFAULT_MAX_SEEKTABLE_SIZE,
   max_vorbis_comment_size_ |-> DEFAULT_MAX_VORBIS_COMMENT_SIZE,
   max_cuesheet_size_ |-> DEFAULT_MAX_CUESHEET_SIZE,
   max_album_art_size_ |-> DEFAULT_MAX_ALBUM_ART_SIZE,
   max_unknown_size_ |-> DEFAULT_MAX_UNKNOWN_SIZE,
   assert_failed_ |-> FALSE, ub_ |-> FALSE, oob_ |-> FALSE, wide_ |-> FALSE]

----------------------------------------------------------------------------
(* The caller's side: well-formed streams, built as an encoder lays them   *)
(* out (the inputs of the model; the decoder never sees these operators).  *)

BitsToBytes(bits) ==
  [i \in 1..(Len(bits) \div 8) |-> BitsToNat(SubSeq(bits, 8 * i - 7, 8 * i))]

(* One metadata block: the 4-byte block header and the body.               *)
MetadataBlock(last, type, body) ==
  BitsToBytes(NatToBits(IF last THEN 1 ELSE 0, 1) \o NatToBits(type, 7)
              \o NatToBits(Len(body), 24)) \o body

(* The 34-byte STREAMINFO body; si is a record of the stream properties.   *)
StreamInfoBody(si) ==
  BitsToBytes(NatToBits(si.min_block_size, 16) \o NatToBits(si.max_block_size, 16)
              \o NatToBits(0, 24) \o NatToBits(0, 24)
              \o NatToBits(si.sample_rate, 20) \o NatToBits(si.channels - 1, 3)
              \o NatToBits(si.sample_depth - 1, 5)
              \o NatToBits(0, 4) \o NatToBits(si.total_samples, 32))
  \o si.md5

MagicBytes == <<102, 76, 97, 67>>

----------------------------------------------------------------------------
(* The streams the caller holds.                                            *)

RECURSIVE HeaderBlocks(_, _)
HeaderBlocks(blocks, i) ==
  IF i > Len(blocks) THEN <<>>
  ELSE MetadataBlock(i = Len(blocks), blocks[i].type, blocks[i].body)
         \o HeaderBlocks(blocks, i + 1)

(* magic, STREAMINFO first, then the other blocks; the last one is flagged. *)
HeaderBytes(magic, si, blocks) ==
  magic \o MetadataBlock(blocks = <<>>, FLAC_METADATA_TYPE_STREAMINFO, StreamInfoBody(si))
        \o HeaderBlocks(blocks, 1)

(* The validation rules of the format for STREAMINFO.                       *)
ValidStreamInfo(si) ==
  /\ si.sample_rate # 0 /\ si.channels # 0 /\ si.sample_depth # 0
  /\ si.max_block_size # 0
  /\ 16 <= si.min_block_size /\ si.min_block_size <= si.max_block_size
  /\ si.max_block_size <= 65535

MkStream(magic, si, blocks, tail) ==
  LET h == HeaderBytes(magic, si, blocks) IN
  [si |-> si, blocks |-> blocks, header_length |-> Len(h), bytes |-> h \o tail,
   well_formed |-> (magic = MagicBytes /\ ValidStreamInfo(si)),
   frames |-> <<>>, frame_ends |-> <<>>]

SI0 ==
  [min_block_size |-> 16, max_block_size |-> 16, sample_rate |-> 8000, channels |-> 1,
   sample_depth |-> 8, total_samples |-> 0, md5 |-> [i \in 1..16 |-> 0]]

Block(type, body) == [type |-> type, body |-> body]

HeaderStreams ==
  { MkStream(MagicBytes, SI0, <<>>, <<>>),
    MkStream(MagicBytes, [SI0 EXCEPT !.channels = 2, !.md5 = [i \in 1..16 |-> 7]], <<>>,
             <<255, 248>>),
    MkStream(MagicBytes, SI0, <<Block(FLAC_METADATA_TYPE_VORBIS_COMMENT, <<1, 2>>)>>, <<>>),
    MkStream(MagicBytes, SI0,
             <<Block(FLAC_METADATA_TYPE_PADDING, <<>>),
               Block(FLAC_METADATA_TYPE_PICTURE, <<1, 2, 3, 4, 5>>),
               Block(FLAC_METADATA_TYPE_VORBIS_COMMENT, <<9>>)>>, <<>>),
    MkStream(<<102, 76, 97, 88>>, SI0, <<>>, <<>>),
    MkStream(MagicBytes, [SI0 EXCEPT !.sample_rate = 0], <<>>, <<255, 248, 0>>),
    MkStream(MagicBytes, [SI0 EXCEPT !.min_block_size = 8], <<>>, <<>>),
    MkStream(MagicBytes, [SI0 EXCEPT !.min_block_size = 32], <<>>, <<>>) }

(* Frames as they lie in a file.  Each begins with the sync code, block   *)
(* size code 6 (an 8-bit block size minus one follows the frame number),    *)
(* sample rate and depth taken from STREAMINFO, and ends with its CRC-16.   *)
(* pcm holds the samples of each channel the frame encodes.                 *)
Frame(bytes, pcm) ==
  [bytes |-> bytes, block_size |-> Len(pcm[1]), pcm |-> pcm, crc_ok |-> TRUE]

RECURSIVE FrameEnds(_, _)
FrameEnds(frames, at) ==
  IF frames = <<>> THEN <<>>
  ELSE LET end == at + Len(Head(frames).bytes) IN
       <<end>> \o FrameEnds(Tail(frames), end)

RECURSIVE FramesBytes(_)
FramesBytes(frames) ==
  IF frames = <<>> THEN <<>> ELSE Head(frames).bytes \o FramesBytes(Tail(frames))

MkFrameStream(si, frames) ==
  LET h == MkStream(MagicBytes, si, <<>>, FramesBytes(frames)) IN
  [h EXCEPT !.frames = frames, !.frame_ends = FrameEnds(frames, h.header_length)]

SI2 == [SI0 EXCEPT !.channels = 2]

FrameStreams ==
  { (* mono: a constant, a verbatim and a fixed (order 2, Rice 1) subframe    *)
    MkFrameStream(SI0,
      << Frame(<<255, 248, 96, 0, 0, 3, 227, 0, 5, 247, 188>>, << <<5, 5, 5, 5>> >>),
         Frame(<<255, 248, 96, 0, 1, 2, 241, 2, 1, 254, 3, 227, 177>>, << <<1, -2, 3>> >>),
         Frame(<<255, 248, 96, 0, 2, 4, 220, 20, 1, 3, 0, 82, 12, 84, 224>>,
               << <<1, 3, 6, 10, 9>> >>) >>),
    (* stereo: left/side with an LPC subframe (order 2, precision 4, shift   *)
    (* 1), mid/side with a fixed subframe (order 1, Rice 2), side/right       *)
    MkFrameStream(SI2,
      << Frame(<<255, 248, 96, 128, 0, 3, 232, 66, 10, 12, 48, 159, 128, 1, 2, 4, 1, 1, 129,
                 129, 64, 133, 90>>, << <<10, 12, 15, 19>>, <<9, 9, 9, 9>> >>),
         Frame(<<255, 248, 96, 160, 1, 2, 185, 18, 5, 0, 129, 64, 1, 0, 128, 127, 176, 0,
                 227, 78>>, << <<7, -8, 20>>, <<4, -3, 20>> >>),
         Frame(<<255, 248, 96, 144, 2, 1, 110, 2, 181, 12, 128, 12, 128, 146, 115>>,
               << <<-100, 100>>, <<50, 50>> >>) >>),
    (* mono: a good frame, then one of 17 samples where STREAMINFO allows 16  *)
    MkFrameStream(SI0,
      << Frame(<<255, 248, 96, 0, 0, 1, 237, 2, 128, 127, 121, 226>>, << <<-128, 127>> >>),
         Frame(<<255, 248, 96, 0, 1, 16, 143, 0, 1, 140, 170>>, << [i \in 1..17 |-> 1] >>) >>),
    (* independent stereo: a good frame, then one whose CRC-16 is wrong       *)
    MkFrameStream(SI2,
      << Frame(<<255, 248, 96, 16, 0, 1, 79, 2, 1, 2, 16, 0, 0, 128, 64, 157, 69>>,
               << <<1, 2>>, <<3, 4>> >>),
         [Frame(<<255, 248, 96, 16, 1, 0, 93, 0, 255, 0, 0, 2, 232>>, << <<-1>>, <<0>> >>)
            EXCEPT !.crc_ok = FALSE] >>) }

(* Frames with a named defect, for the error paths of decode_frame.  pcm   *)
(* holds the samples the frame's subframes encode; defect says what is      *)
(* wrong with the frame, "none" for an intact one:                          *)
(*   "crc8", "crc16": the stored CRC differs from the computed one;         *)
(*   "reserved_subframe_type", "reserved_residual_coding_method",           *)
(*   "block_size_not_divisible_rice": the first subframe is refused;        *)
(*   "reserved_channel_assignment": the header carries assignment 11;       *)
(*   "warm_up_exceeds_block_size": the subframe's predictor order is        *)
(*   larger than the block size of the frame;                               *)
(*   "sample_range": left/side with left 127 and side -128, so the right    *)
(*   channel is 255, outside 8 bits.                                        *)
(* Every CRC not named by the defect is the right one.                      *)
TestFrame(bytes, pcm, defect) ==
  [bytes |-> bytes, pcm |-> pcm, defect |-> defect]

SI16 == [SI0 EXCEPT !.channels = 2, !.sample_depth = 16]

MkTestStream(si, blocks, frames) ==
  LET h == MkStream(MagicBytes, si, blocks, FramesBytes(frames)) IN
  [h EXCEPT !.frames = frames, !.frame_ends = FrameEnds(frames, h.header_length)]

TestStreams ==
  { (* two intact mono frames                                                *)
    MkTestStream(SI0, <<>>,
      << TestFrame(<<255, 248, 96, 0, 0, 1, 237, 2, 3, 252, 112, 226>>, << <<3, -4>> >>, "none"),
         TestFrame(<<255, 248, 96, 0, 1, 0, 255, 2, 9, 70, 95>>, << <<9>> >>, "none") >>),
    (* left/side with a right channel out of range, then independent stereo  *)
    MkTestStream(SI2, <<>>,
      << TestFrame(<<255, 248, 96, 128, 0, 0, 225, 2, 127, 2, 192, 0, 143, 92>>,
                   << <<127>>, <<255>> >>, "sample_range"),
         TestFrame(<<255, 248, 96, 16, 1, 0, 93, 2, 1, 2, 2, 42, 253>>,
                   << <<1>>, <<2>> >>, "none") >>),
    (* an intact frame, then subframes that decode_subframe refuses; each    *)
    (* frame's CRCs are right                                                *)
    MkTestStream(SI0, <<>>,
      << TestFrame(<<255, 248, 96, 0, 0, 1, 237, 2, 3, 252, 112, 226>>, << <<3, -4>> >>, "none"),
         TestFrame(<<255, 248, 96, 0, 1, 1, 248, 4, 1, 198>>, <<>>,
                   "reserved_subframe_type"),
         TestFrame(<<255, 248, 96, 0, 2, 1, 199, 16, 128, 190, 130>>, <<>>,
                   "reserved_residual_coding_method"),
         TestFrame(<<255, 248, 96, 0, 3, 2, 219, 16, 4, 128, 82>>, <<>>,
                   "block_size_not_divisible_rice") >>),
    (* channel assignment 11, then independent stereo                        *)
    MkTestStream(SI2, <<>>,
      << TestFrame(<<255, 248, 96, 176, 0, 0, 0, 2, 1, 2, 2, 51, 201>>, <<>>,
                   "reserved_channel_assignment"),
         TestFrame(<<255, 248, 96, 16, 1, 0, 93, 2, 5, 2, 6, 42, 181>>,
                   << <<5>>, <<6>> >>, "none") >>),
    (* a wrong header CRC-8, then an intact frame                            *)
    MkTestStream(SI0, <<>>,
      << TestFrame(<<255, 248, 96, 0, 0, 1, 184, 2, 3, 252, 244, 249>>, << <<3, -4>> >>, "crc8"),
         TestFrame(<<255, 248, 96, 0, 1, 0, 255, 2, 9, 70, 95>>, << <<9>> >>, "none") >>),
    (* a corrupted sample (25 for 9), so a wrong CRC-16, then an intact frame *)
    MkTestStream(SI0, <<>>,
      << TestFrame(<<255, 248, 96, 0, 0, 0, 234, 2, 25, 71, 35>>, << <<25>> >>, "crc16"),
         TestFrame(<<255, 248, 96, 0, 1, 1, 248, 2, 3, 252, 140, 231>>,
                   << <<3, -4>> >>, "none") >>),
    (* a STREAMINFO that read_header rejects (sample rate 0), then a frame   *)
    MkTestStream([SI0 EXCEPT !.sample_rate = 0], <<>>,
      << TestFrame(<<255, 248, 96, 0, 0, 1, 237, 2, 3, 252, 112, 226>>, << <<3, -4>> >>,
                   "none") >>),
    (* a VORBIS_COMMENT block behind STREAMINFO, then a frame                *)
    MkTestStream(SI0, <<Block(FLAC_METADATA_TYPE_VORBIS_COMMENT, <<1, 2>>)>>,
      << TestFrame(<<255, 248, 96, 0, 0, 1, 237, 2, 3, 252, 112, 226>>, << <<3, -4>> >>,
                   "none") >>),
    (* 16-bit mid/side stereo                                                *)
    MkTestStream(SI16, <<>>,
      << TestFrame(<<255, 248, 96, 160, 0, 0, 162, 2, 1, 44, 2, 255, 254, 128, 196, 214>>,
                   << <<299>>, <<302>> >>, "none") >>),
    (* an intact frame, then a block of 1 sample whose fixed subframe has    *)
    (* order 2, that is 2 warm-up samples                                    *)
    MkTestStream(SI0, <<>>,
      << TestFrame(<<255, 248, 96, 0, 0, 1, 237, 2, 3, 252, 112, 226>>, << <<3, -4>> >>, "none"),
         TestFrame(<<255, 248, 96, 0, 1, 0, 255, 20, 1, 2, 0, 0, 225, 197>>, <<>>,
                   "warm_up_exceeds_block_size") >>) }

Streams == HeaderStreams \cup FrameStreams

MaxHeaderCalls == 3

(* The first read_header call sees at most this many bytes past the header. *)
MaxExtra == 3

(* decode_frame is called until this many frames are delivered, and once    *)
(* more.                                                                    *)
MaxFrames == 3

(* What freshly allocated, uninitialised memory may hold.                   *)
UninitValues == {0, 77}

(* The limits a caller configures.                                          *)
LimitTypes == {FLAC_METADATA_TYPE_PICTURE}
LimitSizes == {0, 8}

----------------------------------------------------------------------------
(* The caller: one action per public method.                                *)

Init ==
  /\ stream \in Streams
  /\ dec = FLACDecoder
  /\ pos = 0
  /\ op = "new"
  /\ ret = "none"
  /\ arg = [from |-> 0, len |-> 0]
  /\ out = <<>>
  /\ num_samples = 0
  /\ hist = <<>>
  /\ build = "any"
  /\ limits_changed = FALSE
  /\ delivered = 0

(* A call returned r.v and left the decoder r.s, unless an assert of the    *)
(* method failed: a build with asserts aborts there, one without goes on.   *)
Completes(r) ==
  /\ dec' = [r.s EXCEPT !.assert_failed_ = FALSE]
  /\ ret' = r.v
  /\ hist' = Append(hist, r.v)
  /\ pos' = pos + get_bytes_index(r.s)
  /\ build' = IF r.s.assert_failed_ THEN "ndebug" ELSE build

Aborts(r) ==
  /\ r.s.assert_failed_
  /\ build = "any"
  /\ dec' = r.s
  /\ ret' = ABORTED
  /\ hist' = Append(hist, ABORTED)
  /\ pos' = pos
  /\ build' = "debug"

(* A read_header call on the next n bytes of the stream.                    *)
ReadHeaderCall(n) ==
  LET r == Call("read_header", <<dec, SubSeq(stream.bytes, pos + 1, pos + n)>>) IN
  /\ op' = "read_header"
  /\ arg' = [from |-> pos, len |-> n]
  /\ Completes(r) \/ Aborts(r)

(* read_header on the next bytes of the stream.  The first call carries any *)
(* prefix of the stream; a call after HEADER_OUT_OF_DATA carries the bytes  *)
(* from bytes_consumed() onward, up to the end of the stream.               *)
ReadHeader ==
  /\ ret \in {"none", FLAC_DECODER_HEADER_OUT_OF_DATA}
  /\ Len(hist) < MaxHeaderCalls
  /\ \E n \in IF hist = <<>>
               THEN 0..Min(Len(stream.bytes), stream.header_length + MaxExtra)
               ELSE {Len(stream.bytes) - pos} :
       ReadHeaderCall(n)
  /\ UNCHANGED <<stream, out, num_samples, limits_changed, delivered>>

(* set_max_metadata_size, before the header is complete.                    *)
SetMaxMetadataSize ==
  /\ ret \in {"none", FLAC_DECODER_HEADER_OUT_OF_DATA}
  /\ \E type \in LimitTypes, max_size \in LimitSizes :
       dec' = set_max_metadata_size(dec, type, max_size)
  /\ limits_changed' = (limits_changed \/ hist # <<>>)
  /\ UNCHANGED <<stream, pos, op, ret, arg, out, num_samples, hist, build, delivered>>

(* set_crc_check_enabled and set_output_32bit_samples, between the header   *)
(* and the first frame.                                                     *)
SetCrcCheckEnabled ==
  /\ op = "read_header" /\ ret = FLAC_DECODER_SUCCESS
  /\ dec' = set_crc_check_enabled(dec, ~dec.enable_crc_check_)
  /\ UNCHANGED <<stream, pos, op, ret, arg, out, num_samples, hist, build, limits_changed,
                 delivered>>

SetOutput32bitSamples ==
  /\ op = "read_header" /\ ret = FLAC_DECODER_SUCCESS
  /\ dec' = set_output_32bit_samples(dec, ~dec.output_32bit_samples_)
  /\ UNCHANGED <<stream, pos, op, ret, arg, out, num_samples, hist, build, limits_changed,
                 delivered>>

(* What a decode_frame call that computed r can come back with: its result, *)
(* or, when it executed undefined behaviour, anything (UNDEFINED); a build  *)
(* with asserts aborts where one failed.                                    *)
FrameOutcomes(r) ==
  {r.v} \cup (IF r.s.ub_ \/ r.s.wide_ THEN {UNDEFINED} ELSE {})
        \cup (IF r.s.assert_failed_ /\ build = "any" THEN {ABORTED} ELSE {})

(* A decode_frame call on the next n bytes of the stream, malloc returning  *)
(* m.  The caller moves its window on by bytes_consumed() after the results *)
(* in advancing.  DecodeFrame below is the benchmark's loop: the rest of    *)
(* the stream after the header and after each frame, moving on after        *)
(* SUCCESS and stopping at any other result.                                *)
DecodeFrameCall(n, m, advancing) ==
  LET r == Call("decode_frame", <<dec, SubSeq(stream.bytes, pos + 1, pos + n), m>>) IN
  \E outcome \in FrameOutcomes(r) :
    /\ op' = "decode_frame"
    /\ arg' = [from |-> pos, len |-> n]
    /\ ret' = outcome
    /\ hist' = IF op = "decode_frame" THEN Append(hist, outcome) ELSE <<outcome>>
    /\ dec' = [r.s EXCEPT !.assert_failed_ = FALSE]
    /\ build' = IF outcome = ABORTED THEN "debug"
                ELSE IF r.s.assert_failed_ THEN "ndebug" ELSE build
    /\ pos' = IF outcome \in advancing THEN pos + get_bytes_index(r.s) ELSE pos
    /\ out' = IF outcome = FLAC_DECODER_SUCCESS THEN r.out ELSE out
    /\ num_samples' = r.num_samples
    /\ delivered' = IF outcome = FLAC_DECODER_SUCCESS THEN delivered + 1 ELSE delivered

(* What malloc may return to the call that allocates block_samples_; the    *)
(* other calls do not allocate.                                             *)
MallocResults ==
  IF dec.block_samples_null_ THEN {NULL} \cup {Allocated(fill) : fill \in UninitValues}
  ELSE {NULL}

DecodeFrame ==
  /\ op \in {"read_header", "decode_frame"}
  /\ ret = FLAC_DECODER_SUCCESS
  /\ delivered <= MaxFrames
  /\ \E m \in MallocResults :
       DecodeFrameCall(Len(stream.bytes) - pos, m, {FLAC_DECODER_SUCCESS})
  /\ UNCHANGED <<stream, limits_changed>>

Next ==
  \/ ReadHeader
  \/ SetMaxMetadataSize
  \/ SetCrcCheckEnabled
  \/ SetOutput32bitSamples
  \/ DecodeFrame

Spec == Init /\ [][Next]_vars

----------------------------------------------------------------------------
(* The caller of the frame decoder's error paths: the same decoder over the *)
(* streams of TestStreams, with windows that cut a frame short, retries     *)
(* after ERROR_OUT_OF_DATA, calls after ERROR_CRC_MISMATCH, and             *)
(* decode_frame calls made before read_header has returned SUCCESS.         *)

(* The first read_header call misses this many bytes of the header, or      *)
(* carries the whole stream.                                                *)
HeaderCut == 2

(* A window after the header or after a frame holds any number of bytes up  *)
(* to this many, or the rest of the stream.                                 *)
MaxCut == 16

(* decode_frame is called at most this many times.                          *)
MaxCalls == 8

FrameInit ==
  /\ stream \in TestStreams
  /\ dec = FLACDecoder
  /\ pos = 0
  /\ op = "new"
  /\ ret = "none"
  /\ arg = [from |-> 0, len |-> 0]
  /\ out = <<>>
  /\ num_samples = 0
  /\ hist = <<>>
  /\ build = "any"
  /\ limits_changed = FALSE
  /\ delivered = 0

ReadHeaderPart ==
  /\ ret \in {"none", FLAC_DECODER_HEADER_OUT_OF_DATA}
  /\ Len(hist) < MaxHeaderCalls
  /\ \E n \in IF hist = <<>>
               THEN {stream.header_length - HeaderCut, Len(stream.bytes)}
               ELSE {Len(stream.bytes) - pos} :
       ReadHeaderCall(n)
  /\ UNCHANGED <<stream, out, num_samples, limits_changed, delivered>>

(* The window lengths of the next decode_frame call: after SUCCESS of       *)
(* read_header or decode_frame any cut or the rest of the stream; after     *)
(* ERROR_OUT_OF_DATA the same window grown to the rest of the stream; after *)
(* ERROR_CRC_MISMATCH the rest of the stream past bytes_consumed(); before  *)
(* read_header has returned SUCCESS nothing or the rest of the stream.  The *)
(* caller stops at any other error.                                         *)
FrameWindows ==
  LET rest == Len(stream.bytes) - pos IN
  IF ret = FLAC_DECODER_SUCCESS THEN (0..Min(rest, MaxCut)) \cup {rest}
  ELSE IF op = "decode_frame" THEN
    IF ret = FLAC_DECODER_ERROR_OUT_OF_DATA /\ arg.len < rest THEN {rest}
    ELSE IF ret = FLAC_DECODER_ERROR_CRC_MISMATCH THEN {rest}
    ELSE {}
  ELSE IF ret # ABORTED THEN {0, rest}
  ELSE {}

DecodeFrameWindow ==
  /\ op = "decode_frame" => Len(hist) < MaxCalls
  /\ \E n \in FrameWindows, m \in MallocResults :
       DecodeFrameCall(n, m, {FLAC_DECODER_SUCCESS, FLAC_DECODER_ERROR_CRC_MISMATCH})
  /\ UNCHANGED <<stream, limits_changed>>

FrameNext ==
  \/ ReadHeaderPart
  \/ SetCrcCheckEnabled
  \/ SetOutput32bitSamples
  \/ DecodeFrameWindow

FrameSpec == FrameInit /\ [][FrameNext]_vars

----------------------------------------------------------------------------
(* What the claims below compare.                                           *)

(* A call's result with the stream properties and the retained blocks.      *)
Outcome(v, d) ==
  <<v, d.sample_rate_, d.num_channels_, d.sample_depth_, d.min_block_size_,
    d.max_block_size_, d.num_samples_, d.md5_signature_, d.metadata_blocks_>>

(* A fresh decoder with the limits of d.                                    *)
FreshWithLimitsOf(d) ==
  [FLACDecoder EXCEPT !.max_padding_size_ = d.max_padding_size_,
                      !.max_application_size_ = d.max_application_size_,
                      !.max_seektable_size_ = d.max_seektable_size_,
                      !.max_vorbis_comment_size_ = d.max_vorbis_comment_size_,
                      !.max_cuesheet_size_ = d.max_cuesheet_size_,
                      !.max_album_art_size_ = d.max_album_art_size_,
                      !.max_unknown_size_ = d.max_unknown_size_]

(* read_header on all of bytes from offset p, called again from            *)
(* bytes_consumed() onward after each HEADER_OUT_OF_DATA.                   *)
RECURSIVE DriveHeader(_, _, _, _)
DriveHeader(bytes, d, p, n) ==
  LET r == Call("read_header", <<d, SubSeq(bytes, p + 1, Len(bytes))>>) IN
  IF r.v = FLAC_DECODER_HEADER_OUT_OF_DATA /\ n < MaxHeaderCalls
    THEN DriveHeader(bytes, r.s, p + get_bytes_index(r.s), n + 1)
    ELSE r

(* The stream properties the format requires of a usable header.            *)
ValidProperties(d) ==
  /\ d.sample_rate_ # 0 /\ d.num_channels_ # 0 /\ d.sample_depth_ # 0
  /\ d.max_block_size_ # 0
  /\ 16 <= d.min_block_size_ /\ d.min_block_size_ <= d.max_block_size_
  /\ d.max_block_size_ <= 65535

(* The blocks of the stream that the limits of d let through, as retained.  *)
ExpectedBlocks(blocks, d) ==
  LET kept == SelectSeq(blocks, LAMBDA b : Len(b.body) <= max_size_of(d, b.type)) IN
  [i \in 1..Len(kept) |->
     [type |-> kept[i].type, length |-> Len(kept[i].body), data |-> kept[i].body]]

HeaderOnly == Len(stream.bytes) = stream.header_length

----------------------------------------------------------------------------
(* C1: split-input equivalence of read_header.  For a well-formed header H *)
(* given as a first chunk A and then, after each HEADER_OUT_OF_DATA, as    *)
(* the bytes from bytes_consumed() onward up to the end of H, the final    *)
(* result code, the stream properties and the retained blocks are those of *)
(* a fresh decoder driven with H unsplit.                                   *)
C1_SplitInputEquivalence ==
  ( /\ op = "read_header"
    /\ stream.well_formed /\ HeaderOnly /\ ~limits_changed
    /\ ret \notin {FLAC_DECODER_HEADER_OUT_OF_DATA, ABORTED} )
  => LET u == DriveHeader(stream.bytes, FreshWithLimitsOf(dec), 0, 1)
     IN Outcome(ret, dec) = Outcome(u.v, u.s)

(* C2: read_header returns ERROR_BAD_MAGIC_NUMBER only when four bytes     *)
(* were read and differ from 'fLaC'; a call whose bytes so far are a       *)
(* proper prefix of a well-formed header (fewer than four bytes, or none,  *)
(* included) returns HEADER_OUT_OF_DATA.                                    *)
C2_BadMagicOnlyOnMismatch ==
  (op = "read_header" /\ ret # ABORTED) =>
    /\ ret = FLAC_DECODER_ERROR_BAD_MAGIC_NUMBER =>
          (arg.len >= 4 /\ SubSeq(stream.bytes, 1, 4) # MagicBytes)
    /\ (stream.well_formed /\ arg.from + arg.len < stream.header_length) =>
          ret = FLAC_DECODER_HEADER_OUT_OF_DATA

(* C3: a first call whose buffer holds the whole well-formed header, with  *)
(* or without frame bytes behind it, returns SUCCESS with bytes_consumed() *)
(* the header length; HEADER_OUT_OF_DATA only when the header is           *)
(* incomplete.                                                              *)
C3_WholeHeaderSucceeds ==
  (op = "read_header" /\ Len(hist) = 1 /\ stream.well_formed /\ ret # ABORTED) =>
    /\ arg.len >= stream.header_length =>
          (ret = FLAC_DECODER_SUCCESS /\ get_bytes_index(dec) = stream.header_length)
    /\ ret = FLAC_DECODER_HEADER_OUT_OF_DATA => arg.len < stream.header_length

(* C4: when read_header has just returned SUCCESS the stream properties    *)
(* are valid (rate, channels, depth, max block size non-zero and           *)
(* 16 <= min_block_size <= max_block_size <= 65535); when the metadata     *)
(* ended with any of them failing, it returned ERROR_BAD_HEADER.           *)
C4_SuccessMeansValidated ==
  (op = "read_header"
     /\ ret \in {FLAC_DECODER_SUCCESS, FLAC_DECODER_ERROR_BAD_HEADER})
  => (ret = FLAC_DECODER_SUCCESS <=> ValidProperties(dec))

C4_Witness ==
  /\ op = "read_header" /\ ret = FLAC_DECODER_SUCCESS /\ Len(hist) = 2
  /\ dec.sample_rate_ = 8000 /\ dec.min_block_size_ = 16 /\ dec.num_channels_ = 2

(* C5: for a well-formed header parsed to SUCCESS with the limits          *)
(* unchanged, the retained list is, in stream order, the non-STREAMINFO    *)
(* blocks whose length is within the limit of their type, each with its    *)
(* body; nothing else is retained.                                          *)
C5_RetainedAreThoseWithinLimit ==
  ( /\ op = "read_header" /\ ret = FLAC_DECODER_SUCCESS
    /\ stream.well_formed /\ ~limits_changed )
  => dec.metadata_blocks_ = ExpectedBlocks(stream.blocks, dec)

(* C6: with the limit of a type at 0, no block of that type is retained    *)
(* after read_header, whatever its declared length.                        *)
C6_LimitZeroRetainsNothing ==
  (op = "read_header" /\ ~limits_changed /\ ret # ABORTED) =>
    \A i \in 1..Len(dec.metadata_blocks_) :
       max_size_of(dec, dec.metadata_blocks_[i].type) # 0

(* C7: every block that a read_header call commits has length equal to    *)
(* the number of its data bytes and within the limit configured for its    *)
(* type during that call, whatever set_max_metadata_size calls came        *)
(* between the read_header calls.                                           *)
C7_RetainedBlocksConsistent ==
  [][ (op' = "read_header" /\ hist' # hist) =>
        \A i \in 1..Len(dec'.metadata_blocks_) :
           (hist = <<>> \/ i > Len(dec.metadata_blocks_)) =>
              /\ dec'.metadata_blocks_[i].length = Len(dec'.metadata_blocks_[i].data)
              /\ dec'.metadata_blocks_[i].length
                   <= max_size_of(dec', dec'.metadata_blocks_[i].type) ]_vars

----------------------------------------------------------------------------
(* Frames: what the claims below compare.                                   *)

(* Where frame k of the stream starts.                                      *)
FrameStart(k) == IF k = 1 THEN stream.header_length ELSE stream.frame_ends[k - 1]

(* The stream holds frames, all of them valid.                              *)
ValidFrames ==
  /\ stream.frames # <<>>
  /\ \A k \in DOMAIN stream.frames :
       stream.frames[k].crc_ok /\ stream.frames[k].block_size <= stream.si.max_block_size

(* read_header consumed the whole header and found the stream's            *)
(* properties: the frames are decoded from the first frame on.              *)
HeaderWasRead ==
  /\ arg.from >= stream.header_length
  /\ dec.num_channels_ = stream.si.channels
  /\ dec.sample_depth_ = stream.si.sample_depth
  /\ dec.max_block_size_ = stream.si.max_block_size

(* The output bytes for 8-bit samples pcm[channel][i]: interleaved, one     *)
(* unsigned byte each, or, in 32-bit mode, four bytes little-endian holding *)
(* the sample in the top byte.                                              *)
ExpectedOutput(pcm, output_32bit) ==
  LET channels == Len(pcm)
      bytes == IF output_32bit THEN 4 ELSE 1
  IN [q \in 1..(Len(pcm[1]) * channels * bytes) |->
        LET k == q - 1
            x == pcm[((k \div bytes) % channels) + 1][(k \div (channels * bytes)) + 1]
        IN IF output_32bit THEN (IF k % 4 = 3 THEN x % 256 ELSE 0) ELSE x + 128]

----------------------------------------------------------------------------
C9_RegisterEmptyAfterReturn ==
  (op \in {"read_header", "decode_frame"} /\ ret \notin {ABORTED, UNDEFINED})
  => dec.bit_buffer_length_ = 0

(* C10: decode_frame driven over valid frames F1..Fn lying back to back,   *)
(* the window moved on by bytes_consumed() after each SUCCESS: the k-th    *)
(* SUCCESS delivers the samples of Fk and leaves the window just past the  *)
(* CRC-16 of Fk, and the call made after Fn, on empty input, returns       *)
(* NO_MORE_FRAMES.                                                          *)
C10_FramesInSourceOrder ==
  ( /\ op = "decode_frame" /\ ValidFrames /\ HeaderWasRead
    /\ ret # FLAC_DECODER_ERROR_MEMORY_ALLOCATION_ERROR )
  => IF arg.len = 0
       THEN /\ ret = FLAC_DECODER_NO_MORE_FRAMES
            /\ delivered = Len(stream.frames)
       ELSE /\ ret = FLAC_DECODER_SUCCESS
            /\ delivered \in DOMAIN stream.frames
            /\ arg.from = FrameStart(delivered)
            /\ out = ExpectedOutput(stream.frames[delivered].pcm, dec.output_32bit_samples_)
            /\ arg.from + get_bytes_index(dec) = stream.frame_ends[delivered]
            /\ pos = stream.frame_ends[delivered]

C10_Witness ==
  /\ op = "decode_frame" /\ ValidFrames /\ HeaderWasRead
  /\ ret = FLAC_DECODER_NO_MORE_FRAMES
  /\ hist = <<FLAC_DECODER_SUCCESS, FLAC_DECODER_SUCCESS, FLAC_DECODER_SUCCESS,
              FLAC_DECODER_NO_MORE_FRAMES>>
  /\ stream.si.channels = 2 /\ dec.output_32bit_samples_
  /\ out = ExpectedOutput(stream.frames[3].pcm, TRUE)
  /\ pos = Len(stream.bytes)

----------------------------------------------------------------------------
(* Frames given in pieces, damaged frames, calls out of order.              *)

(* read_header returned SUCCESS having consumed the whole header of the     *)
(* stream: the properties are the stream's and they are valid ones, and the *)
(* frames are decoded from the first byte behind the header.                *)
HeaderSucceeded == HeaderWasRead /\ stream.well_formed

(* The results that do not come from the bytes of the call.                 *)
NotFromBytes == {FLAC_DECODER_ERROR_MEMORY_ALLOCATION_ERROR, ABORTED, UNDEFINED}

(* C11: a window that holds the sync code and a proper prefix of one valid  *)
(* frame makes decode_frame return ERROR_OUT_OF_DATA, whatever the depth,   *)
(* the channel assignment and the CRC setting; never SUCCESS, never         *)
(* ERROR_CRC_MISMATCH.                                                      *)
C11_TruncatedFrameIsOutOfData ==
  (op = "decode_frame" /\ HeaderSucceeded /\ ret \notin NotFromBytes) =>
    \A k \in DOMAIN stream.frames :
      ( /\ stream.frames[k].defect = "none"
        /\ arg.from = FrameStart(k)
        /\ 2 <= arg.len /\ arg.len < Len(stream.frames[k].bytes) )
      => ret = FLAC_DECODER_ERROR_OUT_OF_DATA

(* C12: whenever decode_frame returns ERROR_OUT_OF_DATA, bytes_consumed()   *)
(* is 0, so that the caller retries on the same window with more bytes.     *)
C12_OutOfDataConsumesNothing ==
  (op = "decode_frame" /\ ret = FLAC_DECODER_ERROR_OUT_OF_DATA) => get_bytes_index(dec) = 0

(* The decoder and the caller's position after read_header on the whole     *)
(* stream and decode_frame on the rest of the stream from position p on,    *)
(* moving on by bytes_consumed() after each SUCCESS or ERROR_CRC_MISMATCH,   *)
(* until the window starts at upto: a caller that never hands over less     *)
(* than the rest of the stream.  p is -1 if the calls do not get there.     *)
RECURSIVE FullWindowCalls(_, _, _, _, _)
FullWindowCalls(d, p, upto, fill, n) ==
  IF p >= upto \/ n = 0 THEN [s |-> d, p |-> IF p = upto THEN p ELSE -1]
  ELSE LET r == Call("decode_frame",
                     <<d, SubSeq(stream.bytes, p + 1, Len(stream.bytes)), Allocated(fill)>>)
       IN IF /\ r.v \in {FLAC_DECODER_SUCCESS, FLAC_DECODER_ERROR_CRC_MISMATCH}
             /\ get_bytes_index(r.s) > 0
            THEN FullWindowCalls([r.s EXCEPT !.assert_failed_ = FALSE],
                                 p + get_bytes_index(r.s), upto, fill, n - 1)
            ELSE [s |-> r.s, p |-> -1]

(* The same decoder settings on a fresh decoder: header read in one call,   *)
(* then full windows up to the position upto.                               *)
FullWindowDecoder(upto, fill) ==
  LET h == DriveHeader(stream.bytes, FLACDecoder, 0, 0)
      d == set_output_32bit_samples(set_crc_check_enabled(h.s, dec.enable_crc_check_),
                                    dec.output_32bit_samples_)
  IN FullWindowCalls(d, get_bytes_index(h.s), upto, fill, MaxCalls)

(* What the caller sees of a decode_frame call.                             *)
Seen(v, o, n, index) == <<v, IF v = FLAC_DECODER_SUCCESS THEN o ELSE <<>>, n, index>>

(* The call was a retry: the call before it returned ERROR_OUT_OF_DATA on a *)
(* shorter window from the same position.                                   *)
IsRetry ==
  /\ op = "decode_frame"
  /\ Len(hist) >= 2
  /\ hist[Len(hist) - 1] = FLAC_DECODER_ERROR_OUT_OF_DATA
  /\ arg.len = Len(stream.bytes) - arg.from

(* C13: a decode_frame call that follows ERROR_OUT_OF_DATA with the window  *)
(* grown to hold the whole frame gives the result code, output bytes,       *)
(* num_samples and bytes_consumed() of a decoder that was given that window *)
(* in the first place.  Where that decoder's result depends on what the     *)
(* uninitialised allocation held, any result is the same as it.             *)
C13_RetryAsIfNeverTruncated ==
  (IsRetry /\ HeaderSucceeded /\ ret \notin NotFromBytes) =>
    LET Reference(fill) ==
          LET f == FullWindowDecoder(arg.from, fill)
              r == Call("decode_frame",
                        <<f.s, SubSeq(stream.bytes, arg.from + 1, Len(stream.bytes)),
                          Allocated(fill)>>)
          IN IF f.p = arg.from
               THEN Seen(r.v, r.out, r.num_samples, get_bytes_index(r.s))
               ELSE <<"none", fill>>
    IN (\A a, b \in UninitValues : Reference(a) = Reference(b)) =>
         \A a \in UninitValues :
           Reference(a)[1] # "none" =>
             Seen(ret, out, num_samples, get_bytes_index(dec)) = Reference(a)

(* C14: with the working buffer available, decode_frame returns             *)
(* NO_MORE_FRAMES exactly when it is called with buffer_length = 0, and     *)
(* then num_samples is 0 and bytes_consumed() is 0.                         *)
C14_NoMoreFramesIffEmptyInput ==
  (op = "decode_frame" /\ ret \notin NotFromBytes) =>
    /\ ret = FLAC_DECODER_NO_MORE_FRAMES <=> arg.len = 0
    /\ ret = FLAC_DECODER_NO_MORE_FRAMES => num_samples = 0 /\ get_bytes_index(dec) = 0

(* decode_frame on an empty window after a frame was decoded and its        *)
(* samples counted.                                                         *)
C14_Witness ==
  /\ op = "decode_frame"
  /\ Len(hist) >= 2
  /\ hist[Len(hist) - 1] = FLAC_DECODER_SUCCESS
  /\ arg.len = 0 /\ arg.from < Len(stream.bytes)
  /\ ret = FLAC_DECODER_NO_MORE_FRAMES
  /\ num_samples = 0 /\ get_bytes_index(dec) = 0

(* The window of the call.                                                  *)
Window == SubSeq(stream.bytes, arg.from + 1, arg.from + arg.len)

(* The call started with an empty bit register: it is the first             *)
(* decode_frame call or follows one that called reset_bit_buffer.           *)
StartedClean ==
  Len(hist) >= 2 =>
    hist[Len(hist) - 1] \notin {FLAC_DECODER_ERROR_CRC_MISMATCH,
                                FLAC_DECODER_ERROR_BLOCK_SIZE_OUT_OF_RANGE}

(* What decode_frame_header and decode_subframes return on the window of    *)
(* the call: header is the header's result; subframes is the result of      *)
(* decode_subframes, "none" where decode_frame does not get that far.       *)
FrameParts ==
  LET s0 == [dec EXCEPT !.buffer_ = Window, !.buffer_index_ = 0,
                        !.bytes_left_ = Len(Window), !.out_of_data_ = FALSE,
                        !.bit_buffer_ = 0, !.bit_buffer_length_ = 0]
      header == Call("decode_frame_header", <<s0>>)
  IN [header |-> header.v,
      channel_assign |-> header.s.curr_frame_channel_assign_,
      subframes |->
        IF header.v # FLAC_DECODER_SUCCESS \/ block_size_out_of_range(header.s) THEN "none"
        ELSE Call("decode_subframes", <<header.s, header.s.curr_frame_block_size_,
                                        header.s.curr_frame_sample_depth_,
                                        header.s.curr_frame_channel_assign_>>).v]

SubframeErrors ==
  {FLAC_DECODER_ERROR_RESERVED_SUBFRAME_TYPE,
   FLAC_DECODER_ERROR_RESERVED_RESIDUAL_CODING_METHOD,
   FLAC_DECODER_ERROR_BLOCK_SIZE_NOT_DIVISIBLE_RICE,
   FLAC_DECODER_ERROR_OUT_OF_DATA}

(* C15: if decoding a subframe of the frame yields RESERVED_SUBFRAME_TYPE,  *)
(* RESERVED_RESIDUAL_CODING_METHOD, BLOCK_SIZE_NOT_DIVISIBLE_RICE or        *)
(* OUT_OF_DATA, decode_frame returns that code; it does not go on to the    *)
(* CRC check or to the output.                                              *)
C15_SubframeErrorsReturned ==
  (op = "decode_frame" /\ arg.len > 0 /\ StartedClean /\ ret \notin NotFromBytes) =>
    (FrameParts.subframes \in SubframeErrors => ret = FrameParts.subframes)

(* The window of the call starts at frame k and holds all of it.            *)
WholeFrame(k) ==
  /\ arg.from = FrameStart(k)
  /\ arg.len >= Len(stream.frames[k].bytes)

(* C16: a frame whose header carries channel assignment 11..15, its CRC-8   *)
(* matching and the frame otherwise well-formed, makes decode_frame return  *)
(* RESERVED_CHANNEL_ASSIGNMENT, with CRC checking enabled or disabled.      *)
C16_ReservedChannelAssignment ==
  (op = "decode_frame" /\ HeaderSucceeded /\ StartedClean /\ ret \notin NotFromBytes) =>
    \A k \in DOMAIN stream.frames :
      ( /\ WholeFrame(k)
        /\ stream.frames[k].defect = "reserved_channel_assignment"
        /\ FrameParts.header = FLAC_DECODER_SUCCESS
        /\ FrameParts.channel_assign \in 11..15 )
      => ret = FLAC_DECODER_ERROR_RESERVED_CHANNEL_ASSIGNMENT

(* C17: a decode_frame call made while no read_header call has returned     *)
(* SUCCESS (none made, the last one HEADER_OUT_OF_DATA, or the header        *)
(* rejected) does not return SUCCESS and writes no output.                   *)
C17_NoFrameBeforeHeader ==
  [][ ( /\ op \in {"new", "read_header"}
        /\ ret # FLAC_DECODER_SUCCESS
        /\ op' = "decode_frame" )
      => (ret' # FLAC_DECODER_SUCCESS /\ out' = out) ]_vars

(* C18: with CRC checking enabled, a frame that is well-formed but for a    *)
(* stored header CRC-8 or frame CRC-16 that differs from the computed one   *)
(* makes decode_frame return CRC_MISMATCH; with CRC checking disabled       *)
(* decode_frame never returns CRC_MISMATCH.                                 *)
C18_CrcMismatchWhenEnabled ==
  (op = "decode_frame" /\ ret \notin NotFromBytes) =>
    /\ ~dec.enable_crc_check_ => ret # FLAC_DECODER_ERROR_CRC_MISMATCH
    /\ (dec.enable_crc_check_ /\ HeaderSucceeded) =>
         \A k \in DOMAIN stream.frames :
           (WholeFrame(k) /\ stream.frames[k].defect \in {"crc8", "crc16"})
             => ret = FLAC_DECODER_ERROR_CRC_MISMATCH

(* The frame with the corrupted sample was refused by the CRC-16 check.     *)
C18_Witness ==
  /\ op = "decode_frame"
  /\ dec.enable_crc_check_
  /\ HeaderSucceeded
  /\ WholeFrame(1) /\ stream.frames[1].defect = "crc16"
  /\ ret = FLAC_DECODER_ERROR_CRC_MISMATCH
  /\ FrameParts.header = FLAC_DECODER_SUCCESS
  /\ FrameParts.subframes = FLAC_DECODER_SUCCESS

(* C19: after decode_frame returned CRC_MISMATCH for a frame with a         *)
(* corrupted body, the caller moves its window on by bytes_consumed() and   *)
(* the next decode_frame call returns SUCCESS with the samples of the next  *)
(* intact frame.                                                            *)
C19_RecoversAfterCrcMismatch ==
  [][ ( /\ op = "decode_frame" /\ ret = FLAC_DECODER_ERROR_CRC_MISMATCH
        /\ HeaderSucceeded
        /\ \E k \in DOMAIN stream.frames :
             /\ WholeFrame(k)
             /\ stream.frames[k].defect = "crc16"
             /\ k + 1 \in DOMAIN stream.frames
             /\ stream.frames[k + 1].defect = "none"
        /\ op' = "decode_frame"
        /\ arg'.from = arg.from + get_bytes_index(dec)
        /\ arg'.len = Len(stream.bytes) - arg'.from
        /\ ret' \notin NotFromBytes )
      => \E k \in DOMAIN stream.frames :
           /\ WholeFrame(k)
           /\ ret' = FLAC_DECODER_SUCCESS
           /\ out' = ExpectedOutput(stream.frames[k + 1].pcm, dec.output_32bit_samples_) ]_vars

(* The decoded samples of the frame: block_samples_ holds the channels one  *)
(* after the other, block size samples each.                                *)
DecodedSamples ==
  {dec.block_samples_[i] : i \in 1..(dec.curr_frame_block_size_ * dec.num_channels_)}

(* C20: after a decode_frame call that returned SUCCESS every decoded       *)
(* sample of every channel, after decorrelation and wasted-bits restoration *)
(* and before the shift of the output, lies in                              *)
(* -2^(sample_depth-1) .. 2^(sample_depth-1) - 1.                           *)
C20_SamplesWithinDepth ==
  (op = "decode_frame" /\ ret = FLAC_DECODER_SUCCESS /\ HeaderSucceeded) =>
    \A x \in DecodedSamples :
      /\ -Pow2(dec.sample_depth_ - 1) <= x
      /\ x <= Pow2(dec.sample_depth_ - 1) - 1

----------------------------------------------------------------------------
(* One decoder, two streams: after the header of the first stream was read  *)
(* the caller opens a second stream and reads its header with the same      *)
(* decoder.                                                                 *)

(* The streams the caller opens second.                                     *)
NextStreams == {s \in HeaderStreams : s.well_formed}

(* A read_header call of an earlier sequence returned SUCCESS.              *)
SecondSequence == \E i \in 1..(Len(hist) - 1) : hist[i] = FLAC_DECODER_SUCCESS

MaxRestartCalls == 5

(* The caller turns to the next stream, at its first byte.                  *)
OpenNextStream ==
  /\ op = "read_header" /\ ret = FLAC_DECODER_SUCCESS /\ pos > 0
  /\ ~SecondSequence
  /\ stream' \in NextStreams
  /\ pos' = 0
  /\ UNCHANGED <<dec, op, ret, arg, out, num_samples, hist, build, limits_changed, delivered>>

(* read_header on the second stream: the first call carries the stream cut  *)
(* short of the end of the header or whole, a call after                    *)
(* HEADER_OUT_OF_DATA the rest of it.                                       *)
ReadNextHeader ==
  /\ op = "read_header"
  /\ Len(hist) < MaxRestartCalls
  /\ \/ /\ ret = FLAC_DECODER_SUCCESS /\ pos = 0
        /\ \E n \in {stream.header_length - HeaderCut, Len(stream.bytes)} : ReadHeaderCall(n)
     \/ /\ ret = FLAC_DECODER_HEADER_OUT_OF_DATA /\ SecondSequence
        /\ ReadHeaderCall(Len(stream.bytes) - pos)
  /\ UNCHANGED <<stream, out, num_samples, limits_changed, delivered>>

RestartNext ==
  \/ ReadHeader
  \/ OpenNextStream
  \/ ReadNextHeader

RestartSpec == Init /\ [][RestartNext]_vars

(* C21: after read_header returned SUCCESS for one stream, a new            *)
(* read_header sequence on a second stream parses that stream: on SUCCESS   *)
(* the stream properties and the retained metadata are those of the second  *)
(* stream.                                                                  *)
C21_SecondStreamIsParsed ==
  (op = "read_header" /\ SecondSequence /\ ret = FLAC_DECODER_SUCCESS) =>
    /\ dec.sample_rate_ = stream.si.sample_rate
    /\ dec.num_channels_ = stream.si.channels
    /\ dec.sample_depth_ = stream.si.sample_depth
    /\ dec.min_block_size_ = stream.si.min_block_size
    /\ dec.max_block_size_ = stream.si.max_block_size
    /\ dec.md5_signature_ = stream.si.md5
    /\ dec.metadata_blocks_ = ExpectedBlocks(stream.blocks, dec)

(***************************************************************************)
(* C24: reset_bit_buffer is only called with a register length that is a   *)
(* multiple of 8 and no larger than what was read from the current buffer: *)
(* its assertion never fails and bytes_consumed() stays within the buffer  *)
(* of the call, also when a header buffer ends in the middle of STREAMINFO *)
(* or of a block header.  While only read_header has been called, the one  *)
(* assertion that can fail is that of reset_bit_buffer; build leaves "any" *)
(* exactly when an assertion has failed.                                   *)
(***************************************************************************)
C24_ResetAssertionHolds ==
  /\ (op = "read_header" => build = "any")
  /\ (op \in {"read_header", "decode_frame"} /\ ret \notin {ABORTED, UNDEFINED}) =>
       (0 <= get_bytes_index(dec) /\ get_bytes_index(dec) <= arg.len)

(***************************************************************************)
(* C23: every write of decode_frame into the working buffer is at an index *)
(* in [0, max_block_size * channels): no frame makes the warm-up samples   *)
(* exceed the block size or the first partition's residual count negative, *)
(* and the buffer allocated on the first call is large enough.  oob_ is    *)
(* set by the first write of any call that falls outside block_samples_.   *)
(***************************************************************************)
C23_WritesWithinWorkingBuffer == ~dec.oob_

(***************************************************************************)
(* C22: every read_header and decode_frame call terminates and returns a   *)
(* result code of FLACDecoderResult, whatever finite buffer it is given.   *)
(* A call is one step here; the step ends in ABORTED when an assertion     *)
(* stops the program and in UNDEFINED when the call ran into undefined     *)
(* behaviour, after which no return is promised.  FLACDecoderResult holds *)
(* the codes that a method returns; ERROR_METADATA_TOO_LARGE is declared   *)
(* in the enum and returned nowhere.                                       *)
(***************************************************************************)
FLACDecoderResult ==
  { FLAC_DECODER_SUCCESS, FLAC_DECODER_NO_MORE_FRAMES, FLAC_DECODER_HEADER_OUT_OF_DATA,
    FLAC_DECODER_ERROR_OUT_OF_DATA, FLAC_DECODER_ERROR_BAD_MAGIC_NUMBER,
    FLAC_DECODER_ERROR_SYNC_NOT_FOUND, FLAC_DECODER_ERROR_BAD_BLOCK_SIZE_CODE,
    FLAC_DECODER_ERROR_BAD_HEADER, FLAC_DECODER_ERROR_RESERVED_CHANNEL_ASSIGNMENT,
    FLAC_DECODER_ERROR_BAD_SAMPLE_DEPTH, FLAC_DECODER_ERROR_RESERVED_SUBFRAME_TYPE,
    FLAC_DECODER_ERROR_BAD_FIXED_PREDICTION_ORDER,
    FLAC_DECODER_ERROR_RESERVED_RESIDUAL_CODING_METHOD,
    FLAC_DECODER_ERROR_BLOCK_SIZE_NOT_DIVISIBLE_RICE,
    FLAC_DECODER_ERROR_MEMORY_ALLOCATION_ERROR, FLAC_DECODER_ERROR_BLOCK_SIZE_OUT_OF_RANGE,
    FLAC_DECODER_ERROR_CRC_MISMATCH }

C22_EveryCallReturnsAResult ==
  (op \in {"read_header", "decode_frame"}) => ret \in FLACDecoderResult

(***************************************************************************)
(* C25: whenever decode_frame returns a result other than SUCCESS, the     *)
(* caller's *num_samples is 0.                                             *)
(***************************************************************************)
C25_NoSamplesUnlessSuccess ==
  (op = "decode_frame" /\ ret \in FLACDecoderResult /\ ret # FLAC_DECODER_SUCCESS) =>
    num_samples = 0

----------------------------------------------------------------------------
(***************************************************************************)
(* The functions of the decoder on their own.  Init draws the input of one *)
(* function into arg; the action of that function applies it, leaving the  *)
(* decoder it worked on in dec, the samples it produced in out and what it *)
(* returned in ret.                                                        *)
(***************************************************************************)

(* Buffers for the sync search: up to MaxSyncLen bytes, each 0xFF, one of   *)
(* the two second sync bytes 0xF8, 0xF9, or a byte that is neither.         *)
MaxSyncLen == 4

SyncBytes == {0, 248, 249, 255}

SyncBuffers == UNION {[1..n -> SyncBytes] : n \in 0..MaxSyncLen}

FindFrameSyncInputs == {[f |-> "find_frame_sync", buffer |-> b] : b \in SyncBuffers}

(* A decoder at the entry of decode_frame on buffer, the bit register empty. *)
AtEntry(buffer) ==
  [FLACDecoder EXCEPT !.buffer_ = buffer, !.buffer_index_ = 0,
                      !.bytes_left_ = Len(buffer), !.out_of_data_ = FALSE]

FindFrameSync ==
  /\ op = "new" /\ arg.f = "find_frame_sync"
  /\ LET r == Call("find_frame_sync", <<AtEntry(arg.buffer)>>) IN
       /\ dec' = r.s
       /\ ret' = r.v
  /\ op' = "find_frame_sync"
  /\ UNCHANGED <<stream, pos, arg, out, num_samples, hist, build, limits_changed, delivered>>

(* Stereo pairs for the decorrelation: at each sample depth the samples     *)
(* within MaxEdge of the smallest value, of zero and of the largest value.  *)
(* A block alternates (L, R) and (R, L).                                    *)
MaxEdge == 1

DecorrelateBlock == 2

StereoDepths == {8, 32}

SampleMin(depth) == IF depth >= 32 THEN INT32_MIN ELSE 0 - Pow2(depth - 1)

SampleMax(depth) == (0 - 1) - SampleMin(depth)

EdgeSamples(depth) ==
  {SampleMin(depth) + k : k \in 0..MaxEdge}
    \cup ((0 - MaxEdge)..MaxEdge)
    \cup {SampleMax(depth) - k : k \in 0..MaxEdge}

DecorrelateInputs ==
  UNION {
    {[f |-> "decorrelate", depth |-> d, channel_assignment |-> c,
      left |-> [i \in 1..DecorrelateBlock |-> IF i % 2 = 1 THEN p[1] ELSE p[2]],
      right |-> [i \in 1..DecorrelateBlock |-> IF i % 2 = 1 THEN p[2] ELSE p[1]]] :
       c \in 8..10, p \in EdgeSamples(d) \X EdgeSamples(d)} : d \in StereoDepths}

(* What the subframes of a joint-stereo frame hold for the pair (l, r).     *)
(* The side sample l - r has depth + 1 bits and is read by                  *)
(* read_sint(depth + 1), which keeps its low 32 bits; the mid sample is     *)
(* (l + r) >> 1.                                                            *)
side_as_read(l, r) ==
  IF SubFits(l, r) THEN l - r
  ELSE IF l >= 0 THEN ((l - Pow2(30)) - Pow2(30)) - ((r + Pow2(30)) + Pow2(30))
  ELSE ((l + Pow2(30)) + Pow2(30)) - ((r - Pow2(30)) - Pow2(30))

mid_of(l, r) == (l \div 2) + (r \div 2) + (((l % 2) + (r % 2)) \div 2)

Encoded(channel_assignment, left, right) ==
  LET n == Len(left) IN
  [k \in 1..(2 * n) |->
     IF k <= n THEN
       (IF channel_assignment = 8 THEN left[k]
        ELSE IF channel_assignment = 9 THEN side_as_read(left[k], right[k])
        ELSE mid_of(left[k], right[k]))
     ELSE
       (IF channel_assignment = 9 THEN right[k - n]
        ELSE side_as_read(left[k - n], right[k - n]))]

Decorrelate ==
  /\ op = "new" /\ arg.f = "decorrelate"
  /\ LET s == [FLACDecoder EXCEPT
                 !.block_samples_ = Encoded(arg.channel_assignment, arg.left, arg.right),
                 !.block_samples_null_ = FALSE]
         r == decorrelate(s, Len(arg.left), arg.channel_assignment)
     IN /\ dec' = r
        /\ ret' = IF r.ub_ THEN UNDEFINED ELSE FLAC_DECODER_SUCCESS
        /\ out' = r.block_samples_
  /\ op' = "decorrelate"
  /\ UNCHANGED <<stream, pos, arg, num_samples, hist, build, limits_changed, delivered>>

(* Predictors for the overflow analysis: one or two coefficients around the *)
(* sums 2^8 and 2^9, the quantization shifts 0, 1 and 9, and the sample     *)
(* depths 8, 24 and 32 (33 is the side channel of a 32-bit stream).         *)
MaxLpcOrder == 2

LpcCoefficients == {-256, 1, 255, 511}

LpcShifts == {0, 1, 9}

LpcDepths == {8, 24, 32, 33}

LpcPredictors == UNION {[1..n -> LpcCoefficients] : n \in 1..MaxLpcOrder}

CanUse32BitLpcInputs ==
  {[f |-> "can_use_32bit_lpc", depth |-> d, coefs |-> c, shift |-> q] :
     d \in LpcDepths, c \in LpcPredictors \cup {<<>>, <<0>>, <<256>>, <<128, -128>>},
     q \in LpcShifts}

CanUse32BitLpc ==
  /\ op = "new" /\ arg.f = "can_use_32bit_lpc"
  /\ out' = can_use_32bit_lpc(arg.depth, arg.coefs, arg.shift)
  /\ op' = "can_use_32bit_lpc"
  /\ UNCHANGED <<stream, dec, pos, arg, ret, num_samples, hist, build, limits_changed,
                 delivered>>

(* Subframes for the prediction restore: RestoreSamples samples, each the   *)
(* smallest value, zero or the largest value of the depth, as an encoder    *)
(* with the given predictor stores them: the warm-up samples, then each     *)
(* later sample less its prediction.                                        *)
RestoreSamples == 3

RestoreDepths == {8, 24}

RestoreInputs ==
  UNION {
    {[f |-> "restore_linear_prediction", depth |-> d, coefs |-> c, shift |-> q, pcm |-> p] :
       c \in LpcPredictors, q \in LpcShifts,
       p \in [1..RestoreSamples -> {SampleMin(d), 0, SampleMax(d)}]} : d \in RestoreDepths}

(* The residual of sample i (0-based, behind the warm-up samples): fits     *)
(* tells whether every step stayed within int32_t.                          *)
residual_of(pcm, coefs, shift, i) ==
  LET sum == lpc_sum(pcm, coefs, i, 1, [fits |-> TRUE, v |-> 0])
      prediction == sum.v \div Pow2(shift)
      ok == sum.fits /\ SubFits(pcm[i + Len(coefs) + 1], prediction)
  IN [fits |-> ok, v |-> IF ok THEN pcm[i + Len(coefs) + 1] - prediction ELSE 0]

encode_subframe(pcm, coefs, shift) ==
  LET order == Len(coefs)
      res == [k \in 1..(Len(pcm) - order) |-> residual_of(pcm, coefs, shift, k - 1)]
  IN [fits |-> \A k \in 1..(Len(pcm) - order) : res[k].fits,
      buf |-> [k \in 1..Len(pcm) |-> IF k <= order THEN pcm[k] ELSE res[k - order].v]]

RestoreLinearPrediction ==
  /\ op = "new" /\ arg.f = "restore_linear_prediction"
  /\ LET can == can_use_32bit_lpc(arg.depth, arg.coefs, arg.shift)
         enc == encode_subframe(arg.pcm, arg.coefs, arg.shift)
         s == [FLACDecoder EXCEPT !.block_samples_ = enc.buf, !.block_samples_null_ = FALSE]
         narrow == restore_linear_prediction_32bit(s, 0, Len(arg.pcm), arg.coefs, arg.shift)
         wide == restore_linear_prediction_64bit(s, 0, Len(arg.pcm), arg.coefs, arg.shift)
     IN /\ dec' = Call("restore_linear_prediction",
                       <<s, 0, Len(arg.pcm), arg.depth, arg.coefs, arg.shift>>)
        /\ out' = [can |-> can.v, encoded |-> enc.fits,
                   overflow_32bit |-> narrow.ub_, samples_32bit |-> narrow.block_samples_,
                   beyond_32bit |-> wide.wide_, samples_64bit |-> wide.block_samples_]
  /\ op' = "restore_linear_prediction"
  /\ UNCHANGED <<stream, pos, arg, ret, num_samples, hist, build, limits_changed, delivered>>

(* Bit registers for align_to_byte: every length a register can have, all   *)
(* bits clear or all set, with up to MaxCursor bytes before and behind the  *)
(* cursor.                                                                  *)
MaxCursor == 2

BitReaderInputs ==
  {[f |-> "align_to_byte", bit_buffer_length_ |-> n,
    bit_buffer_ |-> IF v = 0 \/ n = 0 THEN 0 ELSE 2 * (Pow2(n - 1) - 1) + 1,
    buffer_index_ |-> i, bytes_left_ |-> l] :
     n \in 0..31, v \in 0..1, i \in 0..MaxCursor, l \in 0..MaxCursor}

AlignToByte ==
  /\ op = "new" /\ arg.f = "align_to_byte"
  /\ dec' = align_to_byte([FLACDecoder EXCEPT
                             !.bit_buffer_length_ = arg.bit_buffer_length_,
                             !.bit_buffer_ = arg.bit_buffer_,
                             !.buffer_ = [k \in 1..(arg.buffer_index_ + arg.bytes_left_) |-> 255],
                             !.buffer_index_ = arg.buffer_index_,
                             !.bytes_left_ = arg.bytes_left_])
  /\ op' = "align_to_byte"
  /\ UNCHANGED <<stream, pos, arg, ret, out, num_samples, hist, build, limits_changed,
                 delivered>>

FunctionInputs ==
  FindFrameSyncInputs \cup DecorrelateInputs \cup CanUse32BitLpcInputs
    \cup RestoreInputs \cup BitReaderInputs

FunctionInit ==
  /\ stream = MkStream(MagicBytes, SI0, <<>>, <<>>)
  /\ dec = FLACDecoder
  /\ pos = 0
  /\ op = "new"
  /\ ret = "none"
  /\ arg \in FunctionInputs
  /\ out = <<>>
  /\ num_samples = 0
  /\ hist = <<>>
  /\ build = "any"
  /\ limits_changed = FALSE
  /\ delivered = 0

FunctionNext ==
  \/ FindFrameSync
  \/ Decorrelate
  \/ CanUse32BitLpc
  \/ RestoreLinearPrediction
  \/ AlignToByte

FunctionSpec == FunctionInit /\ [][FunctionNext]_vars

(***************************************************************************)
(* C26: the sync search, started with an empty bit register, records as    *)
(* frame start the smallest offset i with buffer[i] = 0xFF and             *)
(* buffer[i + 1] >> 1 = 0x7C, also when the byte before it is 0xFF, and    *)
(* returns SYNC_NOT_FOUND when the buffer holds no such pair.              *)
(***************************************************************************)
SyncOffsets(buffer) ==
  {i \in 0..(Len(buffer) - 2) : buffer[i + 1] = 255 /\ buffer[i + 2] \div 2 = 124}

C26_SyncAtFirstPair ==
  (op = "find_frame_sync") =>
    IF SyncOffsets(arg.buffer) = {}
      THEN ret = FLAC_DECODER_ERROR_SYNC_NOT_FOUND
      ELSE /\ ret = FLAC_DECODER_SUCCESS
           /\ dec.frame_start_index_ \in SyncOffsets(arg.buffer)
           /\ \A i \in SyncOffsets(arg.buffer) : dec.frame_start_index_ <= i

(* A sync code found right behind a 0xFF that does not belong to it.        *)
C26_Witness ==
  /\ op = "find_frame_sync" /\ ret = FLAC_DECODER_SUCCESS
  /\ dec.frame_start_index_ = 2
  /\ arg.buffer[1] = 255 /\ arg.buffer[2] = 255

(***************************************************************************)
(* C27: the channel decorrelation gives back the pair (L, R) the encoder   *)
(* started from: left/side and side/right with side = L - R, mid/side with *)
(* mid = (L + R) >> 1 and side = L - R; a side channel of 0 gives equal    *)
(* channels.  C27_DecorrelationInvertsEncoder states it for every pair of  *)
(* samples within the depth.  C27_DecorrelationInvertsWhenSideFits states  *)
(* it for the pairs whose side sample fits in 32 bits, which are all pairs *)
(* at depths up to 31: read_sint keeps the low 32 bits of the 33-bit side  *)
(* sample of a 32-bit stream.                                              *)
(***************************************************************************)
SideFits == \A i \in 1..Len(arg.left) : SubFits(arg.left[i], arg.right[i])

AbsSum(coefs) == abs_sum_of_qlp_coeff(coefs, 1)

(* ceil(log2(2^(depth - 1) * a)) + 1 for a > 0; no bits for a product of 0. *)
CeilLog2Bits(depth, a) == IF a = 0 THEN 0 ELSE (depth - 1) + BitLen(a - 1) + 1

(* The signed bit width of 2^(depth - 1) * a.                               *)
SignedBits(depth, a) == IF a = 0 THEN 0 ELSE (depth - 1) + BitLen(a) + 1

(* Whether the signed bit width of S + ((S * a) >> q) is at most 32, that   *)
(* is, whether the value is below 2^31.                                     *)
ResidualBitsFit(depth, a, q) ==
  LET up == (depth - 1) - q IN
  IF depth > 31 THEN FALSE
  ELSE IF up >= 0 THEN
    /\ BitLen(a) + up <= 31
    /\ a * Pow2(up) <= INT32_MAX - Pow2(depth - 1)
  ELSE a \div Pow2(0 - up) <= INT32_MAX - Pow2(depth - 1)

C29_TrueExactlyWhenCeilLog2Fits ==
  (op = "can_use_32bit_lpc" /\ ~out.ub) =>
    (out.v <=> (/\ CeilLog2Bits(arg.depth, AbsSum(arg.coefs)) <= 32
                /\ ResidualBitsFit(arg.depth, AbsSum(arg.coefs), arg.shift)))

C29_TrueExactlyWhenBitWidthsFit ==
  (op = "can_use_32bit_lpc" /\ ~out.ub) =>
    (out.v <=> (/\ SignedBits(arg.depth, AbsSum(arg.coefs)) <= 32
                /\ ResidualBitsFit(arg.depth, AbsSum(arg.coefs), arg.shift)))

(* Both answers at depth 24: 255 * 2^23 fits with a shift of 1, and not     *)
(* with a shift of 0, where the residual bound is 2^31.                     *)
C29_Witness ==
  /\ op = "can_use_32bit_lpc" /\ arg.depth = 24 /\ arg.coefs = <<255>>
  /\ \/ arg.shift = 1 /\ out.v
     \/ arg.shift = 0 /\ ~out.v

(* Whether a prediction sum of samples of the depth with these coefficients *)
(* can leave int32_t: the product 2^(depth - 1) * sum |coef| reaches 2^31.  *)
CanOverflow32(depth, coefs) == SignedBits(depth, AbsSum(coefs)) > 32

C30_AlignToByteIdempotent ==
  (op = "align_to_byte") =>
    /\ align_to_byte(dec) = dec
    /\ dec.bit_buffer_length_ % 8 = 0
    /\ dec.bit_buffer_length_ <= arg.bit_buffer_length_
    /\ arg.bit_buffer_length_ - dec.bit_buffer_length_ < 8
    /\ dec.buffer_index_ = arg.buffer_index_
    /\ dec.bytes_left_ = arg.bytes_left_

(* A register of 13 bits, one byte consumed and two left: 8 bits remain.    *)
C30_Witness ==
  /\ op = "align_to_byte"
  /\ arg.bit_buffer_length_ = 13 /\ arg.buffer_index_ = 1 /\ arg.bytes_left_ = 2
  /\ dec.bit_buffer_length_ = 8 /\ dec.buffer_index_ = 1 /\ dec.bytes_left_ = 2

====
